---- MODULE Spec2Model ----
(***************************************************************************)
(* Diff Sounds: the extension host side (extension.ts), the sound player   *)
(* (DiffSoundPlayer) and the audio webview it talks to, as one state       *)
(* machine.  Time is kept relative: every timer carries the milliseconds   *)
(* it still has to run and sinceConfigChange is Date.now() minus           *)
(* lastConfigChangeTime, so that no absolute clock is needed.              *)
(***************************************************************************)
EXTENDS Integers, Sequences, FiniteSets, TLC

VARIABLES
  settings,                 \* the persisted diffSounds.* settings (vscode.workspace.getConfiguration)
  pendingUpdates,           \* settings writes requested by the enable/disable commands, not yet applied
  currentConfig,            \* extension.ts: currentConfig, loaded once at activation
  isDisabled,               \* extension.ts: isDisabled
  isDuringConfigChange,     \* extension.ts: isDuringConfigChange
  sinceConfigChange,        \* Date.now() - lastConfigChangeTime, saturated at the suppression window
  cooldownTimers,           \* remaining ms of the pending "isDuringConfigChange = false" timers
  openDiffTabCount,         \* extension.ts: openDiffTabCount
  timeout,                  \* extension.ts: timeout, the handle of the last debounce timer
  pendingTimeouts,          \* the debounce timers that are scheduled and not yet fired or cleared
  openTabs,                 \* the comparison tabs that are really open in the editor
  soundPath,                \* DiffSoundPlayer: which of the five *SoundPath fields is non-empty
  audioWebviewPanel,        \* DiffSoundPlayer: whether the audio webview panel exists
  soundCompletionCallbacks, \* DiffSoundPlayer: sound id -> callbacks (the config each one captured)
  audioBuffers,             \* audio webview: the sound ids with a decoded buffer
  playingSources,           \* audio webview: per sound id, the playing one-shot and looped sources
  inbox,                    \* audioEnded messages on their way from the webview to the extension
  soundFiles,               \* the roles for which the sounds folders hold a recognised file
  hist,                     \* history: eligible edits not yet followed by a play, time since the last
  last                      \* history: the handler that ran last and the commands it sent

vars == <<settings, pendingUpdates, currentConfig, isDisabled, isDuringConfigChange,
          sinceConfigChange, cooldownTimers, openDiffTabCount,
          timeout, pendingTimeouts, openTabs, soundPath, audioWebviewPanel,
          soundCompletionCallbacks, audioBuffers, playingSources, inbox, soundFiles,
          hist, last>>

(***************************************************************************)
(* Bounds of the model.                                                    *)
(***************************************************************************)
TickMs == 1000         \* the clock advances in steps of this many ms
NumDiffTabs == 2       \* comparison tabs the editor can have open
MaxSources == 2        \* playing sources per sound id and kind in the webview
MaxInbox == 1          \* audioEnded messages in flight
MaxCallbacks == 2      \* completion callbacks registered and not yet fired
MaxPending == 1        \* settings writes of commands not yet applied
MaxBurst == 3          \* scheduled edits counted in the history
MaxCount == 2          \* openDiffTabCount is followed from -MaxCount to MaxCount
MaxListing == 2        \* entries of the user sounds folder

(***************************************************************************)
(* Program constants.                                                      *)
(***************************************************************************)
UI_INTERACTION_SUPPRESSION_MS == 2000

Roles == {"add", "remove", "diffopen", "diffactive", "diffclose"}
AttributionModes == {"any", "live-only", "git-only"}
\* the settings of debounceMs the model follows: the default and a long one
DebounceValues == {1, UI_INTERACTION_SUPPRESSION_MS}
DiffTabs == 1 .. NumDiffTabs
\* Tab i compares document 2i-1 (original) with document 2i (modified);
\* document 0 is shown in no comparison tab.
Docs == 0 .. (2 * NumDiffTabs)

Min(a, b) == IF a < b THEN a ELSE b
Max(a, b) == IF a > b THEN a ELSE b

Keys == {"enabled", "attributionMode", "debounceMs", "addSound.enabled",
         "removeSound.enabled", "diffOpenSound.enabled", "diffActiveSound.enabled",
         "diffCloseSound.enabled"}

KeyValues(k) ==
  CASE k = "attributionMode" -> AttributionModes
    [] k = "debounceMs" -> DebounceValues
    [] OTHER -> BOOLEAN

\* package defaults read by getVSCodeConfig when a key is not set
DefaultSettings ==
  [k \in Keys |->
     CASE k = "attributionMode" -> "any"
       [] k = "debounceMs" -> 1
       [] OTHER -> TRUE]

(***************************************************************************)
(* Configuration objects.  A config is what getVSCodeConfig builds; each   *)
(* sound entry carries its enabled flag and whether a filename is set.     *)
(***************************************************************************)
SoundEntry(enabled) == [enabled |-> enabled, filename |-> FALSE]

\* extension.ts getVSCodeConfig: removeSound.enabled is read from the
\* key addSound.enabled
getVSCodeConfigOf(s) ==
  [enabled |-> s["enabled"],
   attributionMode |-> s["attributionMode"],
   debounceMs |-> s["debounceMs"],
   sounds |-> [r \in Roles |->
      CASE r = "add" -> SoundEntry(s["addSound.enabled"])
        [] r = "remove" -> SoundEntry(s["addSound.enabled"])
        [] r = "diffopen" -> SoundEntry(s["diffOpenSound.enabled"])
        [] r = "diffactive" -> SoundEntry(s["diffActiveSound.enabled"])
        [] r = "diffclose" -> SoundEntry(s["diffCloseSound.enabled"])]]

getVSCodeConfig == getVSCodeConfigOf(settings)

\* extension.ts getConfig: the cached currentConfig (always set after activation)
getConfig == currentConfig

(***************************************************************************)
(* The sound player and the audio webview.  The operators below take and   *)
(* return a record w of the fields a handler can change on its way:        *)
(*   cmds    the playAudio/stopAudio messages posted so far in this step   *)
(*   playing playingSources of the webview                                 *)
(*   inbox   audioEnded messages in flight                                 *)
(*   cbs     soundCompletionCallbacks                                      *)
(*   count   openDiffTabCount                                              *)
(* A message posted to the audio webview is handled by it at once and in   *)
(* order.                                                                  *)
(***************************************************************************)
PlayCmd(sound, loop) == [op |-> "play", sound |-> sound, loop |-> loop]
StopCmd(sound) == [op |-> "stop", sound |-> sound, loop |-> FALSE]

World == [cmds |-> <<>>, playing |-> playingSources, inbox |-> inbox,
          cbs |-> soundCompletionCallbacks, count |-> openDiffTabCount]

RECURSIVE Repeat(_, _)
Repeat(x, n) == IF n <= 0 THEN <<>> ELSE <<x>> \o Repeat(x, n - 1)

\* onSoundCompleted is called for 'diffopen' only: the end of a one-shot
\* source of another sound posts an audioEnded that finds no callback and
\* changes nothing, so one-shot sources are followed for these sounds only
CompletionSounds == {"diffopen"}

\* audio webview playAudio/playSound: without a decoded buffer nothing starts
WebviewPlay(w, sound, loop) ==
  IF sound \notin audioBuffers THEN w
  ELSE IF loop THEN [w EXCEPT !.playing[sound].loop = @ + 1]
  ELSE IF sound \in CompletionSounds THEN [w EXCEPT !.playing[sound].once = @ + 1]
  ELSE w

\* audio webview stopAudio: every source is stopped and dropped; a stopped
\* one-shot source still raises its 'ended' event, which posts audioEnded
WebviewStop(w, sound) ==
  [w EXCEPT !.playing[sound] = [once |-> 0, loop |-> 0],
            !.inbox = @ \o Repeat(sound, w.playing[sound].once)]

\* DiffSoundPlayer.playAudio
playAudio(w, sound, loop) ==
  IF audioWebviewPanel
    THEN WebviewPlay([w EXCEPT !.cmds = Append(@, PlayCmd(sound, loop))], sound, loop)
    ELSE w

\* DiffSoundPlayer.stopAudio
stopAudio(w, sound) ==
  IF audioWebviewPanel
    THEN WebviewStop([w EXCEPT !.cmds = Append(@, StopCmd(sound))], sound)
    ELSE w

\* DiffSoundPlayer.playAdd / playRemove / playDiffOpen / testDiffActive /
\* testDiffClose: one one-shot play when the path is set and the role enabled
playOnce(w, config, sound) ==
  IF ~soundPath[sound] \/ ~config.sounds[sound].enabled THEN w
  ELSE playAudio(w, sound, FALSE)

playAdd(w, config) == playOnce(w, config, "add")
playRemove(w, config) == playOnce(w, config, "remove")
playDiffOpen(w, config) == playOnce(w, config, "diffopen")

\* DiffSoundPlayer.playDiffActive: a looped play
playDiffActive(w, config) ==
  IF ~soundPath["diffactive"] \/ ~config.sounds["diffactive"].enabled THEN w
  ELSE playAudio(w, "diffactive", TRUE)

\* playDiffClose as it would be if it played the close cue before stopping the loop
playDiffCloseThenStop(w, config) ==
  IF ~soundPath["diffclose"] \/ ~config.sounds["diffclose"].enabled THEN w
  ELSE stopAudio(playAudio(w, "diffclose", FALSE), "diffactive")

\* playDiffClose as it would be if it stopped the active loop before looking
\* at the path and the enabled flag
playDiffCloseStoppingFirst(w, config) ==
  IF ~soundPath["diffclose"] \/ ~config.sounds["diffclose"].enabled
    THEN stopAudio(w, "diffactive")
    ELSE playAudio(stopAudio(w, "diffactive"), "diffclose", FALSE)

\* DiffSoundPlayer.playDiffClose: stops the active loop, then plays the close cue
playDiffClose(w, config) ==
  IF ~soundPath["diffclose"] \/ ~config.sounds["diffclose"].enabled THEN w
  ELSE playAudio(stopAudio(w, "diffactive"), "diffclose", FALSE)

\* DiffSoundPlayer: the play method of a role
playOf(w, config, sound) ==
  CASE sound = "diffactive" -> playDiffActive(w, config)
    [] sound = "diffclose" -> playDiffClose(w, config)
    [] OTHER -> playOnce(w, config, sound)

\* DiffSoundPlayer.onSoundCompleted
onSoundCompleted(w, sound, config) ==
  [w EXCEPT !.cbs[sound] = Append(@, config)]

\* the stopAudio calls of the commands as they would be without the one of the
\* active loop
stopAllButActive(w) ==
  stopAudio(stopAudio(stopAudio(stopAudio(w, "add"), "remove"), "diffopen"), "diffclose")

\* the five stopAudio calls of the enable and disable commands
stopAll(w) ==
  stopAudio(stopAudio(stopAudio(stopAudio(stopAudio(w,
    "diffactive"), "add"), "remove"), "diffopen"), "diffclose")

\* what the bounds of the model allow a handler to leave behind
WithinBounds(w) ==
  /\ \A r \in Roles : w.playing[r].once <= MaxSources /\ w.playing[r].loop <= MaxSources
  /\ Len(w.inbox) <= MaxInbox
  /\ \A r \in Roles : Len(w.cbs[r]) <= MaxCallbacks
  /\ w.count >= -MaxCount /\ w.count <= MaxCount

\* the variables a World record stands for
Commit(w, ev, info) ==
  /\ WithinBounds(w)
  /\ playingSources' = w.playing
  /\ inbox' = w.inbox
  /\ soundCompletionCallbacks' = w.cbs
  /\ openDiffTabCount' = w.count
  /\ last' = [ev |-> ev, cmds |-> w.cmds, info |-> info]

(***************************************************************************)
(* preloadSounds(config): the audio panel follows config.enabled, the scan *)
(* sets the filename of every role it finds a file for (and leaves the     *)
(* others as they were), the five paths are resolved for the enabled       *)
(* roles, and the files that exist are loaded into the webview.            *)
(***************************************************************************)
\* SoundDetector.updateConfigWithDetectedFiles
updateConfigWithDetectedFiles(config) ==
  [config EXCEPT !.sounds = [r \in Roles |->
      IF r \in soundFiles THEN [config.sounds[r] EXCEPT !.filename = TRUE]
      ELSE config.sounds[r]]]

\* SoundDetector.getSoundFilePath: non-empty iff the entry has a filename
getSoundFilePath(entry) == entry.filename

ResolvedPaths(config) ==
  [r \in Roles |-> config.sounds[r].enabled /\ getSoundFilePath(config.sounds[r])]

\* the part of preloadSounds that touches the player and the webview
preloadSounds(config) ==
  LET detected == updateConfigWithDetectedFiles(config)
      paths == ResolvedPaths(detected)
      kept == audioWebviewPanel /\ config.enabled
  IN /\ audioWebviewPanel' = config.enabled
     /\ soundPath' = paths
     /\ audioBuffers' = (IF kept THEN audioBuffers ELSE {}) \cup
           (IF config.enabled THEN {r \in Roles : paths[r] /\ r \in soundFiles} ELSE {})
     /\ playingSources' = IF kept \/ ~audioWebviewPanel THEN playingSources
                          ELSE [r \in Roles |-> [once |-> 0, loop |-> 0]]

NoTimeout == [action |-> "none", config |-> getVSCodeConfigOf(DefaultSettings), remaining |-> 0]

(***************************************************************************)
(* History.  hist.on is fixed by the initial state: the counters are kept  *)
(* only in the specifications that count plays.                            *)
(*   n[d]     edits of direction d scheduled since the last play of d      *)
(*   lastDir  the direction scheduled last, "none" once a timer has fired  *)
(*   run      how many times in a row lastDir has been scheduled           *)
(*   since[d] ms since direction d was scheduled last                      *)
(***************************************************************************)
Directions == {"add", "remove"}

\* the time at which a timer of ms milliseconds is seen to be due
DueAfter(ms) == ((ms + TickMs - 1) \div TickMs) * TickMs

SinceCap == DueAfter(UI_INTERACTION_SUPPRESSION_MS) + TickMs

HistInit(on) == [on |-> on,
                 n |-> [d \in Directions |-> 0],
                 lastDir |-> "none",
                 run |-> 0,
                 since |-> [d \in Directions |-> SinceCap]]

PlaysOf(cmds, sound) ==
  Cardinality({i \in 1 .. Len(cmds) : cmds[i].op = "play" /\ cmds[i].sound = sound})

\* the history after the edits scheduled (a sequence of directions) by one notification
RECURSIVE HistEdit(_, _)
HistEdit(h, scheduled) ==
  IF ~h.on \/ scheduled = <<>> THEN h
  ELSE LET d == Head(scheduled)
       IN HistEdit([h EXCEPT !.n[d] = Min(MaxBurst, @ + 1),
                             !.run = IF h.lastDir = d THEN Min(MaxBurst, @ + 1) ELSE 1,
                             !.lastDir = d,
                             !.since[d] = 0],
                   Tail(scheduled))

\* the history after a debounce timer has fired and sent cmds
HistFire(h, cmds) ==
  IF ~h.on THEN h
  ELSE [h EXCEPT !.n = [d \in Directions |-> IF PlaysOf(cmds, d) > 0 THEN 0 ELSE @[d]],
                 !.run = 0,
                 !.lastDir = "none"]

HistTick(h) ==
  IF ~h.on THEN h
  ELSE [h EXCEPT !.since = [d \in Directions |-> Min(SinceCap, @[d] + TickMs)]]

(***************************************************************************)
(* Configuration changes.                                                  *)
(***************************************************************************)
\* the listener as it would be if it scheduled no timer to clear the flag
onDidChangeConfigurationUntimed ==
  /\ sinceConfigChange' = 0
  /\ isDuringConfigChange' = TRUE
  /\ currentConfig' = updateConfigWithDetectedFiles(getConfig)
  /\ preloadSounds(getConfig)
  /\ cooldownTimers' = cooldownTimers

\* extension.ts: the onDidChangeConfiguration listeners, run in registration order
onDidChangeConfiguration ==
  /\ sinceConfigChange' = 0
  /\ isDuringConfigChange' = TRUE
  /\ currentConfig' = updateConfigWithDetectedFiles(getConfig)
  /\ preloadSounds(getConfig)
  /\ cooldownTimers' = cooldownTimers \cup {UI_INTERACTION_SUPPRESSION_MS}

\* the user changes one setting (settings editor, settings panel)
UpdateSetting(k, v) ==
  /\ v # settings[k]
  /\ settings' = [settings EXCEPT ![k] = v]
  /\ onDidChangeConfiguration
  /\ last' = [ev |-> "config", cmds |-> <<>>, info |-> <<>>]
  /\ UNCHANGED <<pendingUpdates, isDisabled, openDiffTabCount,
                 timeout, pendingTimeouts, openTabs, soundCompletionCallbacks, inbox,
                 soundFiles, hist>>

\* the write of an enable/disable command reaches the settings; the listeners
\* run only if the value changed
ApplyPendingUpdate ==
  /\ pendingUpdates # <<>>
  /\ pendingUpdates' = Tail(pendingUpdates)
  /\ settings' = [settings EXCEPT !["enabled"] = Head(pendingUpdates)]
  /\ IF Head(pendingUpdates) # settings["enabled"]
       THEN /\ onDidChangeConfiguration
            /\ last' = [ev |-> "config", cmds |-> <<>>, info |-> <<>>]
       ELSE /\ UNCHANGED <<sinceConfigChange, isDuringConfigChange, currentConfig,
                           audioWebviewPanel, soundPath, audioBuffers, playingSources,
                           cooldownTimers>>
            /\ last' = [ev |-> "write", cmds |-> <<>>, info |-> <<>>]
  /\ UNCHANGED <<isDisabled, openDiffTabCount,
                 timeout, pendingTimeouts, openTabs, soundCompletionCallbacks, inbox,
                 soundFiles, hist>>

\* the cooldown timer of a configuration change fires
CooldownFire ==
  /\ \E c \in cooldownTimers :
       /\ c <= 0
       /\ cooldownTimers' = cooldownTimers \ {c}
  /\ isDuringConfigChange' = FALSE
  /\ last' = [ev |-> "cooldown", cmds |-> <<>>, info |-> <<>>]
  /\ UNCHANGED <<settings, pendingUpdates, currentConfig, isDisabled, sinceConfigChange,
                 openDiffTabCount, timeout, pendingTimeouts, openTabs,
                 soundPath, audioWebviewPanel, soundCompletionCallbacks, audioBuffers,
                 playingSources, inbox, soundFiles, hist>>

(***************************************************************************)
(* Commands.  wasDiffActivePlaying, which the disable command sets and     *)
(* nothing reads, is left out.                                             *)
(***************************************************************************)
\* extension.ts: diff-sounds.disable
Disable ==
  /\ Len(pendingUpdates) < MaxPending
  /\ isDisabled' = TRUE
  /\ Commit(stopAll(World), "disable", <<playingSources["diffactive"].loop>>)
  /\ pendingUpdates' = Append(pendingUpdates, FALSE)
  /\ UNCHANGED <<settings, currentConfig, isDuringConfigChange, sinceConfigChange,
                 cooldownTimers, timeout, pendingTimeouts, openTabs, soundPath,
                 audioWebviewPanel, audioBuffers, soundFiles, hist>>

\* diff-sounds.enable as it would be if it left the disabled flag alone
EnableLeavesFlag ==
  /\ Len(pendingUpdates) < MaxPending
  /\ isDisabled' = isDisabled
  /\ Commit(stopAll(World), "enable", <<isDisabled>>)
  /\ pendingUpdates' = Append(pendingUpdates, TRUE)
  /\ UNCHANGED <<settings, currentConfig, isDuringConfigChange, sinceConfigChange,
                 cooldownTimers, timeout, pendingTimeouts, openTabs,
                 soundPath, audioWebviewPanel, audioBuffers, soundFiles, hist>>

\* extension.ts: diff-sounds.enable
Enable ==
  /\ Len(pendingUpdates) < MaxPending
  /\ isDisabled' = FALSE
  /\ Commit(stopAll(World), "enable", <<isDisabled>>)
  /\ pendingUpdates' = Append(pendingUpdates, TRUE)
  /\ UNCHANGED <<settings, currentConfig, isDuringConfigChange, sinceConfigChange,
                 cooldownTimers, timeout, pendingTimeouts, openTabs,
                 soundPath, audioWebviewPanel, audioBuffers, soundFiles, hist>>

\* extension.ts: diff-sounds.reloadSounds
\* the user adds sound files to the two folders or removes some: F is the set
\* of roles a scan finds a file for from now on
FilesChange(F) ==
  /\ F # soundFiles
  /\ soundFiles' = F
  /\ last' = [ev |-> "files", cmds |-> <<>>, info |-> <<>>]
  /\ UNCHANGED <<settings, pendingUpdates, currentConfig, isDisabled,
                 isDuringConfigChange, sinceConfigChange, cooldownTimers,
                 openDiffTabCount, timeout, pendingTimeouts, openTabs, soundPath,
                 audioWebviewPanel, soundCompletionCallbacks, audioBuffers,
                 playingSources, inbox, hist>>

\* preloadSounds(getConfig()) as the reload command and the restoreDefaults
\* message call it
PreloadCurrent(ev, info) ==
  /\ currentConfig' = updateConfigWithDetectedFiles(getConfig)
  /\ preloadSounds(getConfig)
  /\ last' = [ev |-> ev, cmds |-> <<>>, info |-> info]
  /\ UNCHANGED <<settings, pendingUpdates, isDisabled, isDuringConfigChange,
                 sinceConfigChange, cooldownTimers, openDiffTabCount,
                 timeout, pendingTimeouts, openTabs, soundCompletionCallbacks, inbox,
                 soundFiles, hist>>

ReloadSoundsWith(info) == PreloadCurrent("reload", info)

ReloadSounds == ReloadSoundsWith(<<>>)

(***************************************************************************)
(* The scan of the sounds folder in detail.  A directory entry has a base  *)
(* name, an extension and a kind: a file, a directory, or an entry whose   *)
(* statSync throws (a dangling link, a file removed since readdirSync).    *)
(***************************************************************************)
DirEntry(base, format, kind) == [base |-> base, format |-> format, kind |-> kind]

\* SoundDetector.scanSoundFiles: the audio extensions
AudioFormats == {"wav", "mp3", "ogg", "m4a", "aac", "flac"}

\* String.toLowerCase on the base names of the model
toLowerCase(name) ==
  CASE name = "ADD" -> "add"
    [] name = "Delete_Added" -> "delete_added"
    [] OTHER -> name

\* a lower-cased base name of the model cut where its keywords begin and end
NameParts(name) ==
  CASE name = "delete_added" -> <<"delete", "_", "add", "ed">>
    [] name = "diffactive-diffopen" -> <<"diffactive", "-", "diffopen">>
    [] name = "surplus" -> <<"sur", "plus">>
    [] OTHER -> <<name>>

\* String.includes for a keyword
includes(name, keyword) ==
  LET parts == NameParts(name)
  IN \E i \in 1..Len(parts) : parts[i] = keyword

\* guessSoundType as it would be if it looked for the remove keywords before
\* the add keywords
guessSoundTypeRemoveFirst(baseName) ==
  LET lowerFilename == toLowerCase(baseName)
  IN IF \/ includes(lowerFilename, "diffopen") \/ includes(lowerFilename, "diff-open")
        \/ includes(lowerFilename, "diff_open") \/ lowerFilename = "diffopen"
       THEN "diffopen"
     ELSE IF \/ includes(lowerFilename, "diffactive") \/ includes(lowerFilename, "diff-active")
             \/ includes(lowerFilename, "diff_active") \/ lowerFilename = "diffactive"
       THEN "diffactive"
     ELSE IF \/ includes(lowerFilename, "diffclose") \/ includes(lowerFilename, "diff-close")
             \/ includes(lowerFilename, "diff_close") \/ lowerFilename = "diffclose"
       THEN "diffclose"
     ELSE IF \/ includes(lowerFilename, "remove") \/ includes(lowerFilename, "delete")
             \/ includes(lowerFilename, "cut") \/ lowerFilename = "minus"
       THEN "remove"
     ELSE IF \/ includes(lowerFilename, "add") \/ includes(lowerFilename, "insert")
             \/ includes(lowerFilename, "create") \/ lowerFilename = "plus"
       THEN "add"
     ELSE "none"

\* SoundDetector.guessSoundType; "none" stands for null
guessSoundType(baseName) ==
  LET lowerFilename == toLowerCase(baseName)
  IN IF \/ includes(lowerFilename, "diffopen") \/ includes(lowerFilename, "diff-open")
        \/ includes(lowerFilename, "diff_open") \/ lowerFilename = "diffopen"
       THEN "diffopen"
     ELSE IF \/ includes(lowerFilename, "diffactive") \/ includes(lowerFilename, "diff-active")
             \/ includes(lowerFilename, "diff_active") \/ lowerFilename = "diffactive"
       THEN "diffactive"
     ELSE IF \/ includes(lowerFilename, "diffclose") \/ includes(lowerFilename, "diff-close")
             \/ includes(lowerFilename, "diff_close") \/ lowerFilename = "diffclose"
       THEN "diffclose"
     ELSE IF \/ includes(lowerFilename, "add") \/ includes(lowerFilename, "insert")
             \/ includes(lowerFilename, "create") \/ lowerFilename = "plus"
       THEN "add"
     ELSE IF \/ includes(lowerFilename, "remove") \/ includes(lowerFilename, "delete")
             \/ includes(lowerFilename, "cut") \/ lowerFilename = "minus"
       THEN "remove"
     ELSE "none"

DetectedSoundFile(entry, origin) ==
  [base |-> entry.base, format |-> entry.format,
   type |-> guessSoundType(entry.base), origin |-> origin]

\* the body of the scan loops as it would be if the Defaults folder were
\* merged with the user files
ScanEntryMerging(entry, detected, origin) ==
  IF entry.format \in AudioFormats /\ guessSoundType(entry.base) # "none"
    THEN Append(detected, DetectedSoundFile(entry, origin))
    ELSE detected

\* SoundDetector.scanSoundFiles: the body of the two loops for an entry that
\* is a file; in the Defaults folder a type the user folder gave is skipped
ScanEntry(entry, detected, origin) ==
  IF entry.format \in AudioFormats /\ guessSoundType(entry.base) # "none"
    THEN IF origin = "default"
            /\ \E i \in 1..Len(detected) :
                  detected[i].type = guessSoundType(entry.base) /\ detected[i].origin = "user"
           THEN detected
           ELSE Append(detected, DetectedSoundFile(entry, origin))
    ELSE detected

\* SoundDetector.scanSoundFiles: one loop; an exception leaves the try block
RECURSIVE ScanFolder(_, _, _)
ScanFolder(files, acc, origin) ==
  IF files = <<>> \/ acc.failed THEN acc
  ELSE LET entry == Head(files)
       IN ScanFolder(Tail(files),
            IF entry.kind = "unreadable" THEN [acc EXCEPT !.failed = TRUE]
            ELSE IF entry.kind = "dir" THEN acc
            ELSE [acc EXCEPT !.detected = ScanEntry(entry, @, origin)],
            origin)

\* the scan as it would be if it left out the files of the roles the config
\* has a filename for already
scanSoundFilesForNewRoles(user, defaults) ==
  SelectSeq(ScanFolder(defaults,
                       ScanFolder(user, [detected |-> <<>>, failed |-> FALSE], "user"),
                       "default").detected,
            LAMBDA f : ~currentConfig.sounds[f.type].filename)

\* SoundDetector.scanSoundFiles: the user folder, then the Defaults folder;
\* the catch block returns what was detected before the exception
scanSoundFiles(user, defaults) ==
  ScanFolder(defaults, ScanFolder(user, [detected |-> <<>>, failed |-> FALSE], "user"),
             "default").detected

NoMatch == [base |-> "", format |-> "", type |-> "none", origin |-> "none"]

\* findBestMatch as it would be without its preferences: the first file of the type
findBestMatchFirstOfType(detectedFiles, soundType) ==
  LET typeMatches == SelectSeq(detectedFiles, LAMBDA f : f.type = soundType)
  IN IF typeMatches = <<>> THEN NoMatch ELSE Head(typeMatches)

\* SoundDetector.findBestMatch
findBestMatch(detectedFiles, soundType) ==
  LET exact == SelectSeq(detectedFiles,
                         LAMBDA f : f.type = soundType /\ toLowerCase(f.base) = soundType)
      typeMatches == SelectSeq(detectedFiles, LAMBDA f : f.type = soundType)
      wav == SelectSeq(typeMatches, LAMBDA f : f.format = "wav")
      mp3 == SelectSeq(typeMatches, LAMBDA f : f.format = "mp3")
  IN IF exact # <<>> THEN Head(exact)
     ELSE IF typeMatches = <<>> THEN NoMatch
     ELSE IF wav # <<>> THEN Head(wav)
     ELSE IF mp3 # <<>> THEN Head(mp3)
     ELSE Head(typeMatches)

\* updateConfigWithDetectedFiles and getSoundFilePath: the subfolder and the
\* file a matched role resolves to
ResolvedFile(match) ==
  [subfolder |-> IF match.origin = "default" THEN "Defaults" ELSE "",
   base |-> match.base, format |-> match.format]

\* the roles a scan finds a file for
DetectedRoles(user, defaults) ==
  LET found == ScanFolder(defaults,
                          ScanFolder(user, [detected |-> <<>>, failed |-> FALSE], "user"),
                          "default").detected
  IN {found[i].type : i \in 1..Len(found)}

\* what the preceding event found, when it was a reload over the same listings
\* of the two folders
PreviousScan(user, defaults) ==
  IF last.ev = "reload" /\ Len(last.info) = 5
       /\ last.info[1] = user /\ last.info[2] = defaults
    THEN <<last.info[3], last.info[4]>> ELSE <<>>

\* the reloadSounds command with the two folders listed as given: soundFiles
\* stands for the roles a scan of them finds
ReloadSoundsFrom(user, defaults) ==
  LET detectedFiles == scanSoundFiles(user, defaults)
  IN /\ soundFiles = DetectedRoles(user, defaults)
     /\ ReloadSoundsWith(<<user, defaults, detectedFiles,
                           [r \in Roles |-> findBestMatch(detectedFiles, r)],
                           PreviousScan(user, defaults)>>)

\* extension.ts: the settings view becomes visible; the sounds are preloaded
\* from a fresh config
OnDidChangeVisibility ==
  /\ preloadSounds(getVSCodeConfig)
  /\ last' = [ev |-> "visible", cmds |-> <<>>, info |-> <<>>]
  /\ UNCHANGED <<settings, pendingUpdates, currentConfig, isDisabled, isDuringConfigChange,
                 sinceConfigChange, cooldownTimers, openDiffTabCount,
                 timeout, pendingTimeouts, openTabs, soundCompletionCallbacks, inbox,
                 soundFiles, hist>>

(***************************************************************************)
(* Time and the debounce timer.                                            *)
(***************************************************************************)
\* the clock advances; a timer that is due fires before it advances further
Tick ==
  /\ \A t \in pendingTimeouts : t.remaining > 0
  /\ \A c \in cooldownTimers : c > 0
  /\ pendingTimeouts' = {[t EXCEPT !.remaining = @ - TickMs] : t \in pendingTimeouts}
  /\ timeout' = IF timeout \in pendingTimeouts
                  THEN [timeout EXCEPT !.remaining = @ - TickMs] ELSE timeout
  /\ cooldownTimers' = {c - TickMs : c \in cooldownTimers}
  /\ sinceConfigChange' = Min(UI_INTERACTION_SUPPRESSION_MS, sinceConfigChange + TickMs)
  /\ hist' = HistTick(hist)
  /\ last' = [ev |-> "tick", cmds |-> <<>>, info |-> <<>>]
  /\ UNCHANGED <<settings, pendingUpdates, currentConfig, isDisabled, isDuringConfigChange,
                 openDiffTabCount, openTabs, soundPath,
                 audioWebviewPanel, soundCompletionCallbacks, audioBuffers, playingSources,
                 inbox, soundFiles>>

\* the callback as it would be without its test of isDuringConfigChange
debounceCallbackUnchecked(w, t) ==
  IF t.action = "add" /\ t.config.sounds["add"].enabled THEN playAdd(w, t.config)
  ELSE IF t.action = "remove" /\ t.config.sounds["remove"].enabled THEN playRemove(w, t.config)
  ELSE w

\* extension.ts debouncedPlay: the callback given to setTimeout
debounceCallback(w, t) ==
  IF isDuringConfigChange THEN w
  ELSE IF t.action = "add" /\ t.config.sounds["add"].enabled THEN playAdd(w, t.config)
  ELSE IF t.action = "remove" /\ t.config.sounds["remove"].enabled THEN playRemove(w, t.config)
  ELSE w

\* a debounce timer fires.  A handle whose timer has fired is as good as
\* undefined (clearTimeout on it does nothing): timeout is reset to NoTimeout.
DebounceFire ==
  \E t \in pendingTimeouts :
    /\ t.remaining <= 0
    /\ pendingTimeouts' = pendingTimeouts \ {t}
    /\ timeout' = IF timeout = t THEN NoTimeout ELSE timeout
    /\ LET w == debounceCallback(World, t)
       IN /\ Commit(w, "debounce", <<t.action, hist.run>>)
          /\ hist' = HistFire(hist, w.cmds)
    /\ UNCHANGED <<settings, pendingUpdates, currentConfig, isDisabled,
                   isDuringConfigChange, sinceConfigChange, cooldownTimers, openTabs, soundPath, audioWebviewPanel,
                   audioBuffers, soundFiles>>

(***************************************************************************)
(* Edits.                                                                  *)
(***************************************************************************)
Change(rangeLength, textLength) == [rangeLength |-> rangeLength, textLength |-> textLength]

\* the content changes the notifications of the model carry: an insertion, a
\* deletion, a longer, a shorter and an equally long replacement, and a change
\* that replaces nothing by nothing
EditChanges ==
  {Change(0, 1), Change(1, 0), Change(1, 2), Change(2, 1), Change(1, 1), Change(0, 0)}

\* notifications of no, one or two content changes
ContentChanges ==
  {<<>>} \cup {<<a>> : a \in EditChanges} \cup {<<a, b>> : a \in EditChanges, b \in EditChanges}

\* the classification as it would be if every replacement counted as an insertion
ClassifyReplacementAsAdd(change) ==
  IF change.rangeLength = 0 /\ change.textLength > 0 THEN "add"
  ELSE IF change.rangeLength > 0 /\ change.textLength = 0 THEN "remove"
  ELSE IF change.rangeLength > 0 /\ change.textLength > 0 THEN "add"
  ELSE "none"

\* extension.ts: the classification of one content change
Classify(change) ==
  IF change.rangeLength = 0 /\ change.textLength > 0 THEN "add"
  ELSE IF change.rangeLength > 0 /\ change.textLength = 0 THEN "remove"
  ELSE IF change.rangeLength > 0 /\ change.textLength > 0
    THEN (IF change.textLength > change.rangeLength THEN "add"
          ELSE IF change.textLength < change.rangeLength THEN "remove"
          ELSE "none")
  ELSE "none"

\* the actions ("add", "remove", "none") of the content changes of a notification
RECURSIVE Classified(_)
Classified(changes) ==
  IF changes = <<>> THEN <<>> ELSE <<Classify(Head(changes))>> \o Classified(Tail(changes))

\* debouncedPlay as it would be without its clearTimeout
debouncedPlayNoClear(st, action, config) ==
  LET timer == [action |-> action, config |-> config, remaining |-> config.debounceMs]
  IN [timeout |-> timer,
      pending |-> st.pending \cup {timer},
      scheduled |-> Append(st.scheduled, action)]

\* debouncedPlay as it would be with one timer slot per direction
debouncedPlayPerDirection(st, action, config) ==
  LET timer == [action |-> action, config |-> config, remaining |-> config.debounceMs]
  IN [timeout |-> timer,
      pending |-> {t \in st.pending : t.action # action} \cup {timer},
      scheduled |-> Append(st.scheduled, action)]

\* extension.ts debouncedPlay(action): clearTimeout(timeout), then a new timer
\* whose handle is kept in timeout.  st = [timeout, pending, scheduled]
debouncedPlay(st, action, config) ==
  LET timer == [action |-> action, config |-> config, remaining |-> config.debounceMs]
  IN [timeout |-> timer,
      pending |-> (st.pending \ {st.timeout}) \cup {timer},
      scheduled |-> Append(st.scheduled, action)]

\* extension.ts: the loop over e.contentChanges, given the action of each change
RECURSIVE ScheduleChanges(_, _, _)
ScheduleChanges(st, actions, config) ==
  IF actions = <<>> THEN st
  ELSE ScheduleChanges(IF Head(actions) = "none" THEN st
                       ELSE debouncedPlay(st, Head(actions), config),
                       Tail(actions), config)

\* what the Live Share lookup of checkLiveAttribution can meet: no API, no
\* session, an exception, a session without or with a participant of the
\* configured author name
LiveLookups == {"noApi", "noSession", "throws", "noMatch", "match"}

\* checkLiveAttribution as it would be if only a session without the author
\* made it answer false
checkLiveAttributionUnlessNoMatch(lookup) == lookup # "noMatch"

\* AttributionService.checkLiveAttribution
checkLiveAttribution(lookup) == lookup = "match"

\* AttributionService.checkGitAttribution: every path returns false
checkGitAttribution == FALSE

\* shouldPlaySound as it would be without its test of config.enabled
shouldPlaySoundThoughOff(config, live) ==
  CASE config.attributionMode = "any" -> TRUE
    [] config.attributionMode = "live-only" -> live
    [] config.attributionMode = "git-only" -> checkGitAttribution
    [] OTHER -> FALSE

\* AttributionService.shouldPlaySound; live tells whether the Live Share
\* lookup finds a participant with the configured author name
shouldPlaySound(config, live) ==
  IF ~config.enabled THEN FALSE
  ELSE CASE config.attributionMode = "any" -> TRUE
         [] config.attributionMode = "live-only" -> live
         [] config.attributionMode = "git-only" -> checkGitAttribution
         [] OTHER -> FALSE

\* the Live Share lookup is made only in mode live-only
LiveOutcomes == IF settings["attributionMode"] = "live-only" THEN BOOLEAN ELSE {FALSE}

\* extension.ts isDocumentInDiffEditor
isDocumentInDiffEditor(doc) ==
  \E tab \in openTabs : doc = 2 * tab - 1 \/ doc = 2 * tab

\* the guards of the edit handler as they would be without the isDisabled check
EditPassesThoughDisabled(doc, live) ==
  /\ ~(sinceConfigChange < UI_INTERACTION_SUPPRESSION_MS)
  /\ shouldPlaySound(getVSCodeConfig, live)
  /\ isDocumentInDiffEditor(doc)

\* the guards of the edit handler as they would be without the suppression window
EditPassesInWindow(doc, live) ==
  /\ ~isDisabled
  /\ shouldPlaySound(getVSCodeConfig, live)
  /\ isDocumentInDiffEditor(doc)

\* the gates of the edit handler as they would be without the test of the
\* document
EditPassesAnyDocument(doc, live) ==
  /\ ~isDisabled
  /\ ~(sinceConfigChange < UI_INTERACTION_SUPPRESSION_MS)
  /\ shouldPlaySound(getVSCodeConfig, live)

\* extension.ts: whether the onDidChangeTextDocument handler gets to its loop
EditPasses(doc, live) ==
  /\ ~isDisabled
  /\ ~(sinceConfigChange < UI_INTERACTION_SUPPRESSION_MS)
  /\ shouldPlaySound(getVSCodeConfig, live)
  /\ isDocumentInDiffEditor(doc)

\* extension.ts: the onDidChangeTextDocument handler, for a notification
\* whose content changes classify as actions; inputs is kept in last for the
\* properties that speak of what the notification carried
OnDidChangeTextDocumentWith(doc, actions, live, inputs) ==
  LET st0 == [timeout |-> timeout, pending |-> pendingTimeouts, scheduled |-> <<>>]
      st == IF EditPasses(doc, live) THEN ScheduleChanges(st0, actions, getVSCodeConfig)
            ELSE st0
  IN /\ timeout' = st.timeout
     /\ pendingTimeouts' = st.pending
     /\ hist' = HistEdit(hist, st.scheduled)
     /\ last' = [ev |-> "edit", cmds |-> <<>>,
                 info |-> <<st.scheduled, isDocumentInDiffEditor(doc), actions, inputs>>]
     /\ UNCHANGED <<settings, pendingUpdates, currentConfig, isDisabled,
                    isDuringConfigChange, sinceConfigChange, cooldownTimers,
                    openDiffTabCount, openTabs, soundPath,
                    audioWebviewPanel, soundCompletionCallbacks, audioBuffers,
                    playingSources, inbox, soundFiles>>

OnDidChangeTextDocument(doc, actions, live) ==
  OnDidChangeTextDocumentWith(doc, actions, live, <<>>)

(***************************************************************************)
(* Tabs.                                                                   *)
(***************************************************************************)
\* the loop over e.closed as it would be if it stopped the active loop on
\* reaching 0 whatever the close cue
RECURSIVE CloseTabsStoppingLoop(_, _, _)
CloseTabsStoppingLoop(w, n, config) ==
  IF n = 0 THEN w
  ELSE IF isDuringConfigChange THEN CloseTabsStoppingLoop(w, n - 1, config)
  ELSE LET w1 == [w EXCEPT !.count = @ - 1]
           w2 == IF w1.count # 0 THEN w1
                 ELSE IF config.sounds["diffclose"].enabled
                   THEN playDiffClose(w1, config)
                 ELSE stopAudio(w1, "diffactive")
       IN CloseTabsStoppingLoop(w2, n - 1, config)

\* extension.ts onDidChangeTabs: the loop over e.closed, for n comparison tabs
RECURSIVE CloseTabs(_, _, _)
CloseTabs(w, n, config) ==
  IF n = 0 THEN w
  ELSE IF isDuringConfigChange THEN CloseTabs(w, n - 1, config)
  ELSE LET w1 == [w EXCEPT !.count = @ - 1]
           w2 == IF w1.count = 0 /\ config.sounds["diffclose"].enabled
                   THEN playDiffClose(w1, config) ELSE w1
       IN CloseTabs(w2, n - 1, config)

\* the loop over e.opened as it would be if it started the active loop together
\* with the open cue
RECURSIVE OpenTabsLoopAtOnce(_, _, _)
OpenTabsLoopAtOnce(w, n, config) ==
  IF n = 0 THEN w
  ELSE IF isDuringConfigChange THEN OpenTabsLoopAtOnce(w, n - 1, config)
  ELSE LET w1 == [w EXCEPT !.count = @ + 1]
           w2 == IF config.sounds["diffopen"].enabled
                   THEN playDiffActive(playDiffOpen(w1, config), config)
                 ELSE IF config.sounds["diffactive"].enabled
                   THEN playDiffActive(w1, config)
                 ELSE w1
       IN OpenTabsLoopAtOnce(w2, n - 1, config)

\* the loop over e.opened as it would be if it registered the completion
\* callback whether or not the open cue is enabled
RECURSIVE OpenTabsAlwaysRegistering(_, _, _)
OpenTabsAlwaysRegistering(w, n, config) ==
  IF n = 0 THEN w
  ELSE IF isDuringConfigChange THEN OpenTabsAlwaysRegistering(w, n - 1, config)
  ELSE LET w1 == onSoundCompleted([w EXCEPT !.count = @ + 1], "diffopen", config)
           w2 == IF config.sounds["diffopen"].enabled
                   THEN playDiffOpen(w1, config)
                 ELSE IF config.sounds["diffactive"].enabled
                   THEN playDiffActive(w1, config)
                 ELSE w1
       IN OpenTabsAlwaysRegistering(w2, n - 1, config)

\* extension.ts onDidChangeTabs: the loop over e.opened, for n comparison tabs
RECURSIVE OpenTabs(_, _, _)
OpenTabs(w, n, config) ==
  IF n = 0 THEN w
  ELSE IF isDuringConfigChange THEN OpenTabs(w, n - 1, config)
  ELSE LET w1 == [w EXCEPT !.count = @ + 1]
           w2 == IF config.sounds["diffopen"].enabled
                   THEN playDiffOpen(onSoundCompleted(w1, "diffopen", config), config)
                 ELSE IF config.sounds["diffactive"].enabled
                   THEN playDiffActive(w1, config)
                 ELSE w1
       IN OpenTabs(w2, n - 1, config)

\* the handler as it would be if it went through e.opened before e.closed
tabsHandlerOpenedFirst(w, opened, closed) ==
  IF isDisabled THEN w
  ELSE IF ~getVSCodeConfig.enabled THEN w
  ELSE CloseTabs(OpenTabs(w, Cardinality(opened), getVSCodeConfig),
                 Cardinality(closed), getVSCodeConfig)

\* extension.ts: the onDidChangeTabs handler; opened and closed are the
\* comparison tabs of the notification (other tabs are passed over)
tabsHandler(w, opened, closed) ==
  IF isDisabled THEN w
  ELSE IF ~getVSCodeConfig.enabled THEN w
  ELSE OpenTabs(CloseTabs(w, Cardinality(closed), getVSCodeConfig),
                Cardinality(opened), getVSCodeConfig)

OnDidChangeTabs(opened, closed) ==
  /\ opened \subseteq DiffTabs \ openTabs
  /\ closed \subseteq openTabs
  /\ openTabs' = (openTabs \ closed) \cup opened
  /\ Commit(tabsHandler(World, opened, closed), "tabs",
            <<Cardinality(opened), Cardinality(closed), openDiffTabCount,
              playingSources["diffactive"].loop>>)
  /\ UNCHANGED <<settings, pendingUpdates, currentConfig, isDisabled, isDuringConfigChange,
                 sinceConfigChange, cooldownTimers, timeout,
                 pendingTimeouts, soundPath, audioWebviewPanel, audioBuffers, soundFiles,
                 hist>>

(***************************************************************************)
(* Completion of sounds.                                                   *)
(***************************************************************************)
\* audio webview: a one-shot source reaches its end ('ended' listener); the
\* history takes how many such sources were sounding and whether the handler
\* that ran last was a test that started one
SoundEnds(sound) ==
  /\ playingSources[sound].once > 0
  /\ Len(inbox) < MaxInbox
  /\ playingSources' = [playingSources EXCEPT ![sound].once = @ - 1]
  /\ inbox' = Append(inbox, sound)
  /\ last' = [ev |-> "soundEnds", cmds |-> <<>>,
              info |-> <<sound, playingSources[sound].once,
                         last.ev = "test" /\ last.info[1] = sound /\ last.cmds # <<>>>>]
  /\ UNCHANGED <<settings, pendingUpdates, currentConfig, isDisabled, isDuringConfigChange,
                 sinceConfigChange, cooldownTimers, openDiffTabCount,
                 timeout, pendingTimeouts, openTabs, soundPath, audioWebviewPanel,
                 soundCompletionCallbacks, audioBuffers, soundFiles, hist>>

\* the callback as it would be if it looked neither at the count nor at the
\* disabled flag
diffOpenCompletedUnchecked(w, config) ==
  IF config.sounds["diffactive"].enabled /\ config.enabled
    THEN playDiffActive(w, config)
    ELSE w

\* extension.ts: the callback registered on 'diffopen' when a comparison tab opens
diffOpenCompleted(w, config) ==
  IF w.count > 0 /\ config.sounds["diffactive"].enabled /\ ~isDisabled /\ config.enabled
    THEN playDiffActive(w, config)
    ELSE w

RECURSIVE RunCallbacks(_, _)
RunCallbacks(w, callbacks) ==
  IF callbacks = <<>> THEN w
  ELSE RunCallbacks(diffOpenCompleted(w, Head(callbacks)), Tail(callbacks))

\* the audioEnded branch as it would be if it kept the callbacks it has called
audioEndedKeepingCallbacks(w, sound) == RunCallbacks(w, w.cbs[sound])

\* DiffSoundPlayer: the audioEnded branch of the webview message handler
audioEnded(w, sound) ==
  [RunCallbacks(w, w.cbs[sound]) EXCEPT !.cbs[sound] = <<>>]

AudioEnded ==
  /\ inbox # <<>>
  /\ Commit(audioEnded([World EXCEPT !.inbox = Tail(inbox)], Head(inbox)), "audioEnded",
            <<Head(inbox), soundCompletionCallbacks[Head(inbox)]>>)
  /\ UNCHANGED <<settings, pendingUpdates, currentConfig, isDisabled, isDuringConfigChange,
                 sinceConfigChange, cooldownTimers, timeout,
                 pendingTimeouts, openTabs, soundPath, audioWebviewPanel, audioBuffers,
                 soundFiles, hist>>

\* a call of the play method of a role, the configuration passed being the
\* settings with the role's enabled flag as given
PlayRequest(sound, enabled) ==
  LET config == [getVSCodeConfig EXCEPT !.sounds[sound].enabled = enabled]
  IN /\ Commit(playOf(World, config, sound), "play", <<sound, enabled>>)
     /\ UNCHANGED <<settings, pendingUpdates, currentConfig, isDisabled,
                    isDuringConfigChange, sinceConfigChange, cooldownTimers, timeout,
                    pendingTimeouts, openTabs, soundPath, audioWebviewPanel,
                    audioBuffers, soundFiles, hist>>

\* extension.ts: the testSound message of the settings view
TestSound(sound) ==
  LET testConfig == [getVSCodeConfig EXCEPT !.sounds[sound].enabled = TRUE]
  IN /\ Commit(playOnce(World, testConfig, sound), "test", <<sound>>)
     /\ UNCHANGED <<settings, pendingUpdates, currentConfig, isDisabled,
                    isDuringConfigChange, sinceConfigChange, cooldownTimers, timeout, pendingTimeouts, openTabs, soundPath,
                    audioWebviewPanel, audioBuffers, soundFiles, hist>>

\* DiffSoundPlayer.playAdd ... testDiffClose: the value a missing (falsy) role
\* volume is replaced by
FallbackVolume(sound) == IF sound \in {"add", "remove", "diffopen"} THEN 50 ELSE 100

\* types: the volume of a sound entry is optional; this stands for undefined
NoVolume == -1

\* DiffSoundPlayer: individualVol * masterVol of a role volume r and a master
\* volume m, in ten-thousandths; a || b yields b when a is 0 or undefined
linearVolume(sound, r, m) ==
  (IF r = 0 \/ r = NoVolume THEN FallbackVolume(sound) ELSE r) * (IF m = 0 THEN 100 ELSE m)

\* the volumes a slider of the settings view can send
Volumes == {0, 1, 50, 100}

\* extension.ts: the testSound message of the settings view carrying the
\* volume r of the role's slider, the volume setting being m at that time
TestSoundAt(sound, r, m) ==
  LET testConfig == [getVSCodeConfig EXCEPT !.sounds[sound].enabled = TRUE]
  IN /\ Commit(playOnce(World, testConfig, sound), "test",
                <<sound, r, m, linearVolume(sound, r, m)>>)
     /\ UNCHANGED <<settings, pendingUpdates, currentConfig, isDisabled,
                    isDuringConfigChange, sinceConfigChange, cooldownTimers, timeout, pendingTimeouts, openTabs, soundPath,
                    audioWebviewPanel, audioBuffers, soundFiles, hist>>

(***************************************************************************)
(* Initial states: the extension has been activated with the settings s0   *)
(* and the sound files f0, and the first preloadSounds has completed.      *)
(***************************************************************************)
InitWith(S, F, on) ==
  \E s0 \in S, f0 \in F :
    /\ settings = s0
    /\ soundFiles = f0
    /\ pendingUpdates = <<>>
    /\ currentConfig = [getVSCodeConfigOf(s0) EXCEPT !.sounds = [r \in Roles |->
                            [@[r] EXCEPT !.filename = (r \in f0)]]]
    /\ isDisabled = FALSE
    /\ isDuringConfigChange = FALSE
    /\ sinceConfigChange = UI_INTERACTION_SUPPRESSION_MS
    /\ cooldownTimers = {}
    /\ openDiffTabCount = 0
    /\ timeout = NoTimeout
    /\ pendingTimeouts = {}
    /\ openTabs = {}
    /\ audioWebviewPanel = s0["enabled"]
    /\ soundPath = [r \in Roles |-> getVSCodeConfigOf(s0).sounds[r].enabled /\ r \in f0]
    /\ audioBuffers = IF s0["enabled"]
                        THEN {r \in f0 : getVSCodeConfigOf(s0).sounds[r].enabled} ELSE {}
    /\ soundCompletionCallbacks = [r \in Roles |-> <<>>]
    /\ playingSources = [r \in Roles |-> [once |-> 0, loop |-> 0]]
    /\ inbox = <<>>
    /\ hist = HistInit(on)
    /\ last = [ev |-> "init", cmds |-> <<>>, info |-> <<>>]

\* a call of the play method of a role with a configuration in which the
\* role is enabled, its volume is r (or absent) and the master volume is m
PlayRequestAt(sound, r, m) ==
  LET config == [getVSCodeConfig EXCEPT !.sounds[sound].enabled = TRUE]
  IN /\ Commit(playOf(World, config, sound), "playAt",
                <<sound, r, m, linearVolume(sound, r, m)>>)
     /\ UNCHANGED <<settings, pendingUpdates, currentConfig, isDisabled,
                    isDuringConfigChange, sinceConfigChange, cooldownTimers, timeout,
                    pendingTimeouts, openTabs, soundPath, audioWebviewPanel,
                    audioBuffers, soundFiles, hist>>

(***************************************************************************)
(* Restore defaults.  The Defaults folder is given by whether it exists    *)
(* and by its listing; the user folder after the copies is the function    *)
(* from the names it holds to where the content of each came from.         *)
(***************************************************************************)
FileName(entry) == <<entry.base, entry.format>>

README == DirEntry("README", "txt", "file")

Folder(exists, files) == [exists |-> exists, files |-> files]

UserFolder(user) ==
  [n \in {FileName(user[i]) : i \in 1..Len(user)} |-> "user"]

\* the copy loop as it would be if it left the files the user folder has alone
CopyDefaultKeepingUserFiles(files, acc) ==
  IF Head(files).kind # "file" THEN [acc EXCEPT !.failed = TRUE]
  ELSE IF FileName(Head(files)) \in DOMAIN acc.folder THEN acc
  ELSE [acc EXCEPT !.folder = (FileName(Head(files)) :> "default") @@ @]

\* SoundDetector.restoreDefaults: the body of the loop for one entry that is
\* not README.txt; copyFileSync replaces the target and throws for an entry
\* that is not a readable file
CopyDefault(files, acc) ==
  IF Head(files).kind # "file" THEN [acc EXCEPT !.failed = TRUE]
  ELSE [acc EXCEPT !.folder = (FileName(Head(files)) :> "default") @@ @]

\* SoundDetector.restoreDefaults: the loop over the files of the Defaults folder
RECURSIVE CopyDefaults(_, _)
CopyDefaults(files, acc) ==
  IF files = <<>> \/ acc.failed THEN acc
  ELSE CopyDefaults(Tail(files),
                    IF FileName(Head(files)) = FileName(README) THEN acc
                    ELSE CopyDefault(files, acc))

\* SoundDetector.restoreDefaults: failed tells that it throws
restoreDefaults(user, defaults) ==
  IF ~defaults.exists THEN [failed |-> TRUE, folder |-> UserFolder(user)]
  ELSE CopyDefaults(defaults.files, [failed |-> FALSE, folder |-> UserFolder(user)])

\* extension.ts: the restoreDefaults message of the settings view, with the
\* two folders as given; the status is the one posted to the view
RestoreDefaults(user, defaults) ==
  LET restored == restoreDefaults(user, defaults)
  IN /\ soundFiles = DetectedRoles(user, IF defaults.exists THEN defaults.files ELSE <<>>)
     /\ IF restored.failed
          THEN /\ last' = [ev |-> "restore", cmds |-> <<>>,
                           info |-> <<user, defaults, restored.folder,
                                      "Failed to restore defaults", FALSE>>]
               /\ UNCHANGED <<settings, pendingUpdates, currentConfig, isDisabled,
                              isDuringConfigChange, sinceConfigChange, cooldownTimers,
                              openDiffTabCount, timeout, pendingTimeouts, openTabs,
                              soundPath, audioWebviewPanel, soundCompletionCallbacks,
                              audioBuffers, playingSources, inbox, soundFiles, hist>>
          ELSE PreloadCurrent("restore", <<user, defaults, restored.folder,
                                          "Defaults restored!", TRUE>>)

(***************************************************************************)
(* Activation with a configuration file.  loadConfig reads                 *)
(* diffsounds-config.json of the extension folder; a file is modelled by   *)
(* the function from the keys it has to their values.                      *)
(***************************************************************************)
\* no diffsounds-config.json: require throws
NoFile == [missing |-> TRUE]

LegacyPathKeys == {"addSoundPath", "removeSoundPath"}

\* files of the legacy format: the five plain keys and at least one legacy path
LegacyFiles ==
  {[enabled |-> e, attributionMode |-> m, authorName |-> n, volume |-> v, debounceMs |-> d]
     @@ [k \in P |-> "x"] :
     e \in BOOLEAN, m \in AttributionModes, n \in {"Cline", "me"}, v \in {0, 80},
     d \in {1, 5}, P \in (SUBSET LegacyPathKeys) \ {{}}}

\* a file of the structured format
StructuredFile ==
  [enabled |-> TRUE, attributionMode |-> "any", authorName |-> "Cline",
   sounds |-> [r \in Roles |-> [enabled |-> (r = "add"), filename |-> FALSE]],
   volume |-> 80, debounceMs |-> 5, soundsFolder |-> "sounds"]

ConfigFiles == {NoFile, StructuredFile} \cup LegacyFiles

\* the migration as it would be if it took the package defaults for the
\* volume and the debounce interval
migrateLegacyConfigToDefaults(legacyConfig) ==
  [enabled |-> legacyConfig.enabled,
   attributionMode |-> legacyConfig.attributionMode,
   authorName |-> legacyConfig.authorName,
   sounds |-> [r \in Roles |-> [enabled |-> TRUE, filename |-> FALSE]],
   volume |-> 100,
   debounceMs |-> 1,
   soundsFolder |-> "sounds"]

\* extension.ts migrateLegacyConfig
migrateLegacyConfig(legacyConfig) ==
  [enabled |-> legacyConfig.enabled,
   attributionMode |-> legacyConfig.attributionMode,
   authorName |-> legacyConfig.authorName,
   sounds |-> [r \in Roles |-> [enabled |-> TRUE, filename |-> FALSE]],
   volume |-> legacyConfig.volume,
   debounceMs |-> legacyConfig.debounceMs,
   soundsFolder |-> "sounds"]

\* extension.ts loadConfig
loadConfig(file) ==
  IF file = NoFile THEN getVSCodeConfig
  ELSE IF LegacyPathKeys \cap DOMAIN file # {} THEN migrateLegacyConfig(file)
  ELSE file

\* the extension before activate: no config, no player state, no handler
NotActivated(S, F) ==
  \E s0 \in S, f0 \in F :
    /\ settings = s0
    /\ soundFiles = f0
    /\ pendingUpdates = <<>>
    /\ currentConfig = [undefined |-> TRUE]
    /\ isDisabled = FALSE
    /\ isDuringConfigChange = FALSE
    /\ sinceConfigChange = UI_INTERACTION_SUPPRESSION_MS
    /\ cooldownTimers = {}
    /\ openDiffTabCount = 0
    /\ timeout = NoTimeout
    /\ pendingTimeouts = {}
    /\ openTabs = {}
    /\ audioWebviewPanel = FALSE
    /\ soundPath = [r \in Roles |-> FALSE]
    /\ audioBuffers = {}
    /\ soundCompletionCallbacks = [r \in Roles |-> <<>>]
    /\ playingSources = [r \in Roles |-> [once |-> 0, loop |-> 0]]
    /\ inbox = <<>>
    /\ hist = HistInit(FALSE)
    /\ last = [ev |-> "start", cmds |-> <<>>, info |-> <<>>]

Activated == last.ev # "start"

\* extension.ts activate, finding the configuration file given
Activate(file) ==
  /\ ~Activated
  /\ currentConfig' = updateConfigWithDetectedFiles(loadConfig(file))
  /\ preloadSounds(loadConfig(file))
  /\ last' = [ev |-> "activate", cmds |-> <<>>, info |-> <<file, loadConfig(file)>>]
  /\ UNCHANGED <<settings, pendingUpdates, isDisabled, isDuringConfigChange,
                 sinceConfigChange, cooldownTimers, openDiffTabCount,
                 timeout, pendingTimeouts, openTabs, soundCompletionCallbacks, inbox,
                 soundFiles, hist>>

CueKeys == {"diffOpenSound.enabled", "diffActiveSound.enabled", "diffCloseSound.enabled"}

\* every setting of the three cues, the other keys at their defaults
CueSettings ==
  {[DefaultSettings EXCEPT !["diffOpenSound.enabled"] = o,
                           !["diffActiveSound.enabled"] = a,
                           !["diffCloseSound.enabled"] = c] :
     o \in BOOLEAN, a \in BOOLEAN, c \in BOOLEAN}

\* the cues of the tab lifecycle switched off
QuietSettings == [k \in Keys |-> IF k \in CueKeys THEN FALSE ELSE DefaultSettings[k]]

(***************************************************************************)
(* The events, by kind.                                                    *)
(***************************************************************************)
Commands == Disable \/ Enable \/ ApplyPendingUpdate

Clock == Tick \/ CooldownFire

\* the notifications of the model, each as the actions of its content changes
Notifications == {Classified(n) : n \in ContentChanges}

\* the documents edited: document 0 (in no comparison tab) and the two of tab 1
EditDocs == {0, 1, 2}

\* a document-change notification reaches the handler; a debounce timer fires.
\* When the handler returns before its loop the content changes play no part:
\* one notification, of a single insertion, then stands for all of them.
Edits ==
  \/ \E doc \in EditDocs : \E live \in LiveOutcomes :
       IF EditPasses(doc, live)
         THEN \E actions \in Notifications : OnDidChangeTextDocument(doc, actions, live)
         ELSE OnDidChangeTextDocument(doc, <<"add">>, live)
  \/ DebounceFire

TabsOf(T) ==
  \E opened \in SUBSET T : \E closed \in SUBSET T : OnDidChangeTabs(opened, closed)

Tabs == TabsOf(DiffTabs)

Completions == AudioEnded \/ \E sound \in Roles : SoundEnds(sound)

SettingsChanges(K) == \E k \in K : \E v \in KeyValues(k) : UpdateSetting(k, v)

Reloads == ReloadSounds \/ OnDidChangeVisibility

Tests == \E sound \in Roles : TestSound(sound)

(***************************************************************************)
(* Spec: the tab lifecycle under every setting of the three cues, with the *)
(* enable and disable commands and the configuration changes they cause.   *)
(***************************************************************************)
Init == InitWith(CueSettings, {Roles}, FALSE)

Next == Commands \/ Clock \/ Tabs \/ Completions

Spec == Init /\ [][Next]_vars

(***************************************************************************)
(* SpecEdit: edits and the debounce timer, with the cues of the tab        *)
(* lifecycle switched off, under changes of the settings the edit handler  *)
(* reads.                                                                  *)
(***************************************************************************)
EditKeys == {"debounceMs"}

InitEdit == InitWith({QuietSettings}, {Roles}, FALSE)

NextEdit == Commands \/ Clock \/ Edits \/ TabsOf({1}) \/ SettingsChanges(EditKeys)

SpecEdit == InitEdit /\ [][NextEdit]_vars

(***************************************************************************)
(* SpecBurst: edits alone, with nothing that interferes (no command, no    *)
(* configuration change), the plays being counted.                         *)
(***************************************************************************)
InitBurst ==
  InitWith({[QuietSettings EXCEPT !["debounceMs"] = d] : d \in DebounceValues}, {Roles}, TRUE)

NextBurst == Tick \/ Edits \/ TabsOf({1})

SpecBurst == InitBurst /\ [][NextBurst]_vars

(***************************************************************************)
(* SpecAll: edits and tab events together, under the default settings.     *)
(***************************************************************************)
InitAll == InitWith({DefaultSettings}, {Roles}, FALSE)

NextAll == Commands \/ Clock \/ TabsOf({1}) \/ Completions \/ Edits

SpecAll == InitAll /\ [][NextAll]_vars

(***************************************************************************)
(* SpecGate: edits under every setting of the master flag, the attribution *)
(* mode and the add and remove roles, with every outcome of the Live Share *)
(* lookup.                                                                 *)
(***************************************************************************)
GateSettings ==
  {[QuietSettings EXCEPT !["enabled"] = e, !["attributionMode"] = m,
                         !["addSound.enabled"] = a, !["removeSound.enabled"] = r] :
     e \in BOOLEAN, m \in AttributionModes, a \in BOOLEAN, r \in BOOLEAN}

\* notifications of at most one content change
SingleNotifications == {n \in Notifications : Len(n) <= 1}

\* the lookup is made only in mode live-only
LookupsNow == IF settings["attributionMode"] = "live-only" THEN LiveLookups ELSE {"none"}

GateEdits ==
  \/ \E doc \in EditDocs : \E lookup \in LookupsNow :
       IF EditPasses(doc, checkLiveAttribution(lookup))
         THEN \E actions \in SingleNotifications :
                OnDidChangeTextDocumentWith(doc, actions, checkLiveAttribution(lookup), <<lookup>>)
         ELSE OnDidChangeTextDocumentWith(doc, <<"add">>, checkLiveAttribution(lookup),
                                          <<lookup>>)
  \/ DebounceFire

InitGate == InitWith(GateSettings, {Roles}, FALSE)

NextGate == Tick \/ GateEdits \/ TabsOf({1})

SpecGate == InitGate /\ [][NextGate]_vars

(***************************************************************************)
(* SpecClassify: notifications of up to two content changes, each given by *)
(* its replaced and inserted lengths, with nothing that interferes.        *)
(***************************************************************************)
ClassifyEdits ==
  \/ \E doc \in EditDocs :
       IF EditPasses(doc, FALSE)
         THEN \E changes \in ContentChanges :
                OnDidChangeTextDocumentWith(doc, Classified(changes), FALSE, changes)
         ELSE OnDidChangeTextDocumentWith(doc, Classified(<<Change(0, 1)>>), FALSE,
                                          <<Change(0, 1)>>)
  \/ DebounceFire

InitClassify ==
  InitWith({[QuietSettings EXCEPT !["debounceMs"] = d] : d \in DebounceValues}, {Roles}, FALSE)

NextClassify == Tick \/ ClassifyEdits \/ TabsOf({1})

SpecClassify == InitClassify /\ [][NextClassify]_vars

(***************************************************************************)
(* The test buttons of the settings view at every volume, with the         *)
(* completions of the sounds they start.                                   *)
(***************************************************************************)
VolumeTests == \E sound \in Roles, r \in Volumes, m \in Volumes : TestSoundAt(sound, r, m)

InitVolume == InitWith({DefaultSettings}, {Roles}, FALSE)

NextVolume == VolumeTests \/ Completions

SpecVolume == InitVolume /\ [][NextVolume]_vars

(***************************************************************************)
(* Activation with every configuration file, followed by reloads of the    *)
(* sounds and by tab events.                                               *)
(***************************************************************************)
Activations == \E file \in ConfigFiles : Activate(file)

InitLegacy == NotActivated({DefaultSettings}, {Roles, {}})

NextLegacy == Activations \/ (Activated /\ (ReloadSounds \/ TabsOf({1}) \/ Completions))

SpecLegacy == InitLegacy /\ [][NextLegacy]_vars

(***************************************************************************)
(* Reloads of the sounds over every listing of the two folders, followed   *)
(* by tests of the sounds.                                                 *)
(***************************************************************************)
UserEntries ==
  {DirEntry("add", "wav", "file"), DirEntry("insert", "mp3", "file"),
   DirEntry("create", "ogg", "file"), DirEntry("ADD", "mp3", "file"),
   DirEntry("remove", "wav", "file"), DirEntry("notes", "wav", "file"),
   DirEntry("add", "txt", "file"), DirEntry("delete", "wav", "dir"),
   DirEntry("link", "wav", "unreadable")}

\* listings of the user folder: up to MaxListing entries, each once
UserListings ==
  UNION {{l \in [1..n -> UserEntries] : \A i, j \in 1..n : l[i] = l[j] => i = j} :
           n \in 0..MaxListing}

\* listings of the Defaults folder: empty, or the five sounds shipped
DefaultListings ==
  {<<>>,
   <<DirEntry("add", "wav", "file"), DirEntry("diffactive", "wav", "file"),
     DirEntry("diffclose", "wav", "file"), DirEntry("diffopen", "wav", "file"),
     DirEntry("remove", "wav", "file")>>}

Scans == \E user \in UserListings, defaults \in DefaultListings : ReloadSoundsFrom(user, defaults)

InitScan ==
  InitWith({DefaultSettings},
           {DetectedRoles(user, defaults) : user \in UserListings, defaults \in DefaultListings},
           FALSE)

NextScan == Scans \/ Tests

SpecScan == InitScan /\ [][NextScan]_vars

(***************************************************************************)
(* Restores of the defaults over listings of the two folders, followed by  *)
(* tests of the sounds.                                                    *)
(***************************************************************************)
ShippedDefaults ==
  <<README, DirEntry("add", "wav", "file"), DirEntry("diffactive", "wav", "file"),
    DirEntry("diffclose", "wav", "file"), DirEntry("diffopen", "wav", "file"),
    DirEntry("remove", "wav", "file")>>

\* the Defaults folder: missing, empty, as shipped, and with an entry that
\* cannot be copied after the first sound or before all of them
DefaultsFolders ==
  {Folder(FALSE, <<>>), Folder(TRUE, <<>>), Folder(TRUE, ShippedDefaults),
   Folder(TRUE, <<DirEntry("add", "wav", "file"), DirEntry("old", "wav", "dir"),
                  DirEntry("remove", "wav", "file")>>),
   Folder(TRUE, <<DirEntry("ADD", "mp3", "unreadable"), DirEntry("remove", "wav", "file")>>)}

\* listings of the user folder in which every entry can be examined
ReadableListings ==
  {l \in UserListings : \A i \in 1..Len(l) : l[i].kind # "unreadable"}

Restores == \E user \in ReadableListings, defaults \in DefaultsFolders : RestoreDefaults(user, defaults)

InitRestore ==
  InitWith({DefaultSettings},
           {DetectedRoles(user, defaults.files) :
              user \in ReadableListings, defaults \in DefaultsFolders},
           FALSE)

NextRestore == Restores \/ Tests

SpecRestore == InitRestore /\ [][NextRestore]_vars

(***************************************************************************)
(* Comparison tabs that open and stay open, with no command and no change  *)
(* of the settings.  A one-shot source reaches its end and the audioEnded  *)
(* message it posts is delivered: both are weakly fair.  The open cue is   *)
(* enabled or not, and its file is there or not.                           *)
(***************************************************************************)
Opens == \E opened \in (SUBSET DiffTabs) \ {{}} : OnDidChangeTabs(opened, {})

InitOpen == InitWith(CueSettings, {Roles, Roles \ {"diffopen"}}, FALSE)

NextOpen == Opens \/ Completions \/ Tests

SpecOpen == InitOpen /\ [][NextOpen]_vars /\ WF_vars(Completions)

(***************************************************************************)
(* The open cue is switched on and off in the settings, from every        *)
(* setting of the three cues, with tab events, time and the completions of *)
(* sounds.                                                                 *)
(***************************************************************************)
ConfigKeys == {"diffOpenSound.enabled"}

InitConfig == InitWith(CueSettings, {Roles}, FALSE)

NextConfig == SettingsChanges(ConfigKeys) \/ Clock \/ TabsOf({1}) \/ Completions

SpecConfig == InitConfig /\ [][NextConfig]_vars

(***************************************************************************)
(* Sound files come and go between reloads of the sounds; the sounds are   *)
(* tested and complete.                                                    *)
(***************************************************************************)
FileSets == {Roles, Roles \ {"add"}, Roles \ {"diffopen"}, {}}

FilesChanges == \E F \in FileSets : FilesChange(F)

InitFiles == InitWith({DefaultSettings}, FileSets, FALSE)

NextFiles == FilesChanges \/ ReloadSounds \/ Tests \/ Completions

SpecFiles == InitFiles /\ [][NextFiles]_vars

(***************************************************************************)
(* The open cue is switched on and off from the default settings while     *)
(* time passes.  Time advances and a timer that is due fires: both are     *)
(* weakly fair (setTimeout callbacks run once the event loop is free).     *)
(***************************************************************************)
SpecCooldown ==
  InitAll /\ [][NextConfig]_vars /\ WF_vars(Tick) /\ WF_vars(CooldownFire)

(***************************************************************************)
(* The tab lifecycle of one comparison tab under every setting of the      *)
(* three cues, with the commands, reloads of the sounds and the settings   *)
(* view coming into sight.                                                 *)
(***************************************************************************)
NextClose == Commands \/ Clock \/ TabsOf({1}) \/ Completions \/ Reloads

SpecClose == Init /\ [][NextClose]_vars

(***************************************************************************)
(* The play methods called for every role, with the role enabled or not in *)
(* the configuration passed and with its file there or not, while one      *)
(* comparison tab opens and closes and sounds complete.                    *)
(***************************************************************************)
PlayRequests == \E sound \in Roles, enabled \in BOOLEAN : PlayRequest(sound, enabled)

PlayRequestsAt ==
  \E sound \in Roles, r \in Volumes \cup {NoVolume}, m \in Volumes : PlayRequestAt(sound, r, m)

NextPlay == PlayRequests \/ PlayRequestsAt \/ TabsOf({1}) \/ Completions

SpecPlay == InitFiles /\ [][NextPlay]_vars

(***************************************************************************)
(* Reloads of the sounds over user folders whose file names hold keywords  *)
(* of no role, of one role and of two roles, the Defaults folder being     *)
(* empty.                                                                  *)
(***************************************************************************)
GuessEntries ==
  {DirEntry("Delete_Added", "wav", "file"), DirEntry("diffactive-diffopen", "wav", "file"),
   DirEntry("surplus", "wav", "file"), DirEntry("minus", "wav", "file"),
   DirEntry("plus", "wav", "file"), DirEntry("diff_close", "wav", "file"),
   DirEntry("notes", "wav", "file")}

GuessListings ==
  {<<e>> : e \in GuessEntries} \cup
  {l \in {<<e, f>> : e \in GuessEntries, f \in GuessEntries} : l[1] # l[2]}

GuessScans == \E user \in GuessListings : ReloadSoundsFrom(user, <<>>)

InitGuess ==
  InitWith({DefaultSettings}, {DetectedRoles(user, <<>>) : user \in GuessListings}, FALSE)

NextGuess == GuessScans \/ Tests

SpecGuess == InitGuess /\ [][NextGuess]_vars

(***************************************************************************)
(* Sound files come and go between reloads of the sounds while one         *)
(* comparison tab opens and closes and the sounds are tested.              *)
(***************************************************************************)
NextTest == NextFiles \/ TabsOf({1})

SpecTest == InitFiles /\ [][NextTest]_vars

(***************************************************************************)
(* Properties.  The handlers of edits, tab events, timers and audioEnded   *)
(* messages leave isDisabled, isDuringConfigChange, sinceConfigChange, the *)
(* settings, the paths and the audio panel as they found them, so that a   *)
(* state reached by one of them shows the values its handler saw.          *)
(***************************************************************************)
\* the edit that ran last: the directions it scheduled, whether its document
\* is shown in a comparison tab, and the actions of its content changes
EditScheduled == last.info[1]
EditInDiff == last.info[2]
EditActions == last.info[3]

\* C1: while disabled (after the disable command and until the enable
\* command), an edit event and a tab event send no play and no stop command,
\* and an edit schedules no debounce timer that could send one later.
C1_SilentWhileDisabled ==
  (isDisabled /\ last.ev \in {"edit", "tabs"}) =>
     /\ last.cmds = <<>>
     /\ last.ev = "edit" => EditScheduled = <<>>

\* an insertion in a comparison tab, with the enabled setting still on and
\* outside the suppression window, handled while disabled
C1_Witness ==
  /\ isDisabled
  /\ last.ev = "edit" /\ EditInDiff /\ EditActions = <<"add">>
  /\ settings["enabled"] /\ settings["addSound.enabled"]
  /\ sinceConfigChange >= UI_INTERACTION_SUPPRESSION_MS
  /\ soundPath["add"] /\ audioWebviewPanel

\* C2: a debounce timer that fires while disabled sends no play command.
C2_TimerAbsorbedWhenDisabled ==
  (isDisabled /\ last.ev = "debounce") => last.cmds = <<>>

\* C3: insertions each arriving less than the debounce interval D after the
\* previous one keep exactly one add timer pending, due D after the last of
\* them; an add play is sent by a firing timer only, D after the last
\* insertion, it is the only command sent, and no timer is left behind it.
C3_DebounceCollapsing ==
  hist.on =>
    /\ PlaysOf(last.cmds, "add") > 0 => last.ev = "debounce"
    /\ (last.ev = "debounce" /\ last.info[1] = "add") =>
          /\ last.cmds = <<PlayCmd("add", FALSE)>>
          /\ hist.since["add"] = DueAfter(settings["debounceMs"])
          /\ pendingTimeouts = {}
    /\ hist.lastDir = "add" =>
          /\ Cardinality(pendingTimeouts) = 1
          /\ \A t \in pendingTimeouts :
               /\ t.action = "add"
               /\ t.remaining = settings["debounceMs"] - hist.since["add"]

\* MaxBurst insertions in a row, under the long debounce interval, answered by one play
C3_Witness ==
  /\ hist.on
  /\ last.ev = "debounce" /\ last.info = <<"add", MaxBurst>>
  /\ last.cmds = <<PlayCmd("add", FALSE)>>
  /\ settings["debounceMs"] = UI_INTERACTION_SUPPRESSION_MS
  /\ hist.n["remove"] = 0

C5_SuppressionWindow ==
  last.ev = "edit" =>
    /\ sinceConfigChange < UI_INTERACTION_SUPPRESSION_MS =>
         EditScheduled = <<>> /\ last.cmds = <<>>
    /\ (/\ sinceConfigChange >= UI_INTERACTION_SUPPRESSION_MS
        /\ ~isDisabled
        /\ shouldPlaySound(getVSCodeConfig, TRUE)
        /\ EditInDiff
        /\ \E i \in 1 .. Len(EditActions) : EditActions[i] # "none") =>
         /\ EditScheduled = SelectSeq(EditActions, LAMBDA a : a # "none")
         /\ timeout \in pendingTimeouts
         /\ timeout.action = EditScheduled[Len(EditScheduled)]
         /\ timeout.remaining = settings["debounceMs"]

\* an insertion in a comparison tab, enabled and not disabled, 1000 ms after
\* a configuration change
C5_Witness ==
  /\ last.ev = "edit" /\ EditInDiff /\ EditActions = <<"add">>
  /\ ~isDisabled /\ settings["enabled"] /\ settings["attributionMode"] = "any"
  /\ sinceConfigChange > 0 /\ sinceConfigChange < UI_INTERACTION_SUPPRESSION_MS
  /\ pendingTimeouts = {}

\* the tab event that ran last: the comparison tabs it opened and closed,
\* openDiffTabCount before it and the active loops sounding before it
TabsOpened == last.info[1]
TabsClosed == last.info[2]
CountBefore == last.info[3]
LoopsBefore == last.info[4]

\* the tab handler gets to its two loops and skips no comparison tab
TabsAttended == ~isDisabled /\ settings["enabled"] /\ ~isDuringConfigChange

LoopPlay == PlayCmd("diffactive", TRUE)

\* C6: opening the first comparison tab (count 0 -> 1) with the open cue and
\* the active role enabled and the open cue playable sends the open-cue play
\* alone and registers the completion callback; with the open cue enabled no
\* tab event sends the looped active play; the audioEnded message of the open
\* cue, finding a callback whose conditions hold, sends it.
C6_OpenCueThenLoop ==
  /\ (/\ last.ev = "tabs" /\ TabsAttended
      /\ TabsOpened = 1 /\ TabsClosed = 0 /\ CountBefore = 0
      /\ settings["diffOpenSound.enabled"] /\ settings["diffActiveSound.enabled"]
      /\ soundPath["diffopen"] /\ audioWebviewPanel) =>
        /\ last.cmds = <<PlayCmd("diffopen", FALSE)>>
        /\ openDiffTabCount = 1
        /\ soundCompletionCallbacks["diffopen"] # <<>>
  /\ (last.ev = "tabs" /\ settings["diffOpenSound.enabled"]) =>
        \A i \in 1 .. Len(last.cmds) : last.cmds[i] # LoopPlay
  /\ (/\ last.ev = "audioEnded" /\ last.info[1] = "diffopen"
      /\ \E i \in 1 .. Len(last.info[2]) :
           last.info[2][i].enabled /\ last.info[2][i].sounds["diffactive"].enabled
      /\ openDiffTabCount > 0 /\ ~isDisabled
      /\ soundPath["diffactive"] /\ audioWebviewPanel) =>
        \E i \in 1 .. Len(last.cmds) : last.cmds[i] = LoopPlay

\* the open cue of the one open comparison tab has ended and the loop starts
C6_Witness ==
  /\ last.ev = "audioEnded" /\ last.info[1] = "diffopen" /\ Len(last.info[2]) = 1
  /\ last.cmds = <<LoopPlay>>
  /\ openDiffTabCount = 1 /\ Cardinality(openTabs) = 1
  /\ playingSources["diffactive"].loop = 1

\* C7: closing the last comparison tab (count 1 -> 0) with the close cue
\* enabled and playable sends a stop of the active sound and then the play of
\* the close cue, as the first two commands of the event.
C7_StopThenCloseCue ==
  (/\ last.ev = "tabs" /\ TabsAttended
   /\ TabsClosed = 1 /\ CountBefore = 1
   /\ settings["diffCloseSound.enabled"]
   /\ soundPath["diffclose"] /\ audioWebviewPanel) =>
     /\ Len(last.cmds) >= 2
     /\ last.cmds[1] = StopCmd("diffactive")
     /\ last.cmds[2] = PlayCmd("diffclose", FALSE)
     /\ TabsOpened = 0 => (Len(last.cmds) = 2 /\ playingSources["diffactive"].loop = 0)

\* the only open comparison tab is closed while the active loop sounds
C7_Witness ==
  /\ last.ev = "tabs" /\ TabsOpened = 0 /\ TabsClosed = 1 /\ CountBefore = 1
  /\ LoopsBefore = 1
  /\ last.cmds = <<StopCmd("diffactive"), PlayCmd("diffclose", FALSE)>>
  /\ openTabs = {} /\ openDiffTabCount = 0

\* C8: a tab event that only opens comparison tabs while the count is already
\* 1 or more sends no open-cue play and starts no loop; the close cue is sent
\* only by an event whose closes take the count from 1 to 0.
C8_OncePerBoundaryCrossing ==
  last.ev = "tabs" =>
    /\ (CountBefore >= 1 /\ TabsClosed = 0) =>
         PlaysOf(last.cmds, "diffopen") = 0 /\ PlaysOf(last.cmds, "diffactive") = 0
    /\ PlaysOf(last.cmds, "diffclose") > 0 =>
         CountBefore >= 1 /\ TabsClosed >= CountBefore

\* C9: openDiffTabCount is never negative.
C9_CountNeverNegative == openDiffTabCount >= 0

\* C10: with the close cue enabled and playable, no looped active sound is
\* sounding in a state in which no comparison tab is open.
C10_LoopOnlyWhileOpen ==
  (/\ openTabs = {}
   /\ settings["diffCloseSound.enabled"] /\ soundPath["diffclose"] /\ audioWebviewPanel) =>
     playingSources["diffactive"].loop = 0

\* the stop messages of a command, in the order of its stopAudio calls
FiveStops ==
  <<StopCmd("diffactive"), StopCmd("add"), StopCmd("remove"),
    StopCmd("diffopen"), StopCmd("diffclose")>>

NothingSounding == \A r \in Roles : playingSources[r] = [once |-> 0, loop |-> 0]

\* C11: the state the disable command leaves has the disabled flag set; the
\* command has sent a stop for each of the five sounds and no play (the stops
\* are posted when the audio panel exists), and no source is left sounding.
C11_DisableSynchronous ==
  last.ev = "disable" =>
    /\ isDisabled
    /\ last.cmds = IF audioWebviewPanel THEN FiveStops ELSE <<>>
    /\ audioWebviewPanel => NothingSounding

\* the disable command run while an active loop sounds
C11_Witness ==
  /\ last.ev = "disable" /\ last.info[1] >= 1
  /\ isDisabled /\ last.cmds = FiveStops /\ NothingSounding
  /\ openTabs # {}

\* C12: the state the enable command leaves has the disabled flag cleared;
\* the command has sent a stop for each of the five sounds and no play; and a
\* tab event handled after it (enabled setting on, no configuration change in
\* progress) counts the comparison tabs it opens and closes.
C12_EnableStopsAndResumes ==
  /\ last.ev = "enable" =>
       /\ ~isDisabled
       /\ last.cmds = IF audioWebviewPanel THEN FiveStops ELSE <<>>
       /\ audioWebviewPanel => NothingSounding
  /\ (last.ev = "tabs" /\ TabsAttended) =>
       openDiffTabCount = CountBefore + TabsOpened - TabsClosed

\* the enable command run while disabled
C12_Witness ==
  /\ last.ev = "enable" /\ last.info[1]
  /\ ~isDisabled /\ last.cmds = FiveStops

\* C13: the timer of an eligible deletion, when it fires, plays the remove
\* sound exactly if the setting removeSound.enabled is on, whatever the
\* setting addSound.enabled.
C13_RemoveHasItsOwnSetting ==
  (last.ev = "debounce" /\ last.info[1] = "remove") =>
     (PlaysOf(last.cmds, "remove") > 0 <=> settings["removeSound.enabled"])

\* C14: whenever a test of a role with role volume r and master volume m
\* posts a play, the volume it passes is r*m ten-thousandths, that is
\* (r/100) x (m/100), at 0 as anywhere else in 0..100.
C14_LinearVolume ==
  (last.ev = "test" /\ Len(last.info) = 4 /\ last.cmds # <<>>) =>
     last.info[4] = last.info[2] * last.info[3]

\* the content changes an edit notification carried (SpecClassify)
EditRaw == last.info[4]

\* C15: an edit notification that passes the gates schedules, in the order of
\* its changes, an add play for every change that inserts into nothing or
\* inserts more than it replaces, a remove play for every change that deletes
\* or inserts less than it replaces, and nothing for a replacement of equal
\* length or a change of nothing by nothing.
C15_Classification ==
  (last.ev = "edit" /\ EditInDiff /\ ~isDisabled
     /\ sinceConfigChange >= UI_INTERACTION_SUPPRESSION_MS) =>
    LET kind == [i \in 1..Len(EditRaw) |->
                  LET replaced == EditRaw[i].rangeLength
                      inserted == EditRaw[i].textLength
                  IN IF replaced = 0 /\ inserted > 0 THEN "add"
                     ELSE IF replaced > 0 /\ inserted = 0 THEN "remove"
                     ELSE IF replaced > 0 /\ inserted > replaced THEN "add"
                     ELSE IF replaced > 0 /\ inserted < replaced THEN "remove"
                     ELSE "ignored"]
    IN EditScheduled = SelectSeq(kind, LAMBDA x : x # "ignored")

\* a shorter replacement followed by one of equal length: one remove play scheduled
C15_Witness ==
  /\ last.ev = "edit" /\ EditInDiff /\ ~isDisabled
  /\ sinceConfigChange >= UI_INTERACTION_SUPPRESSION_MS
  /\ EditRaw = <<Change(2, 1), Change(1, 1)>>
  /\ EditScheduled = <<"remove">>

\* C16: an edit notification for a document that no open comparison tab
\* shows on either side schedules no play and leaves the pending timers and
\* the timer handle as they were, whatever the settings.
C16_OutsideComparisonIgnored ==
  [][(last'.ev = "edit" /\ ~last'.info[2]) =>
       /\ last'.info[1] = <<>>
       /\ pendingTimeouts' = pendingTimeouts
       /\ timeout' = timeout]_vars

\* an edit outside every comparison tab arrives while a timer is pending and
\* every other gate is open
C16_Witness ==
  /\ last.ev = "edit" /\ ~EditInDiff
  /\ pendingTimeouts # {} /\ timeout \in pendingTimeouts
  /\ openTabs # {}
  /\ ~isDisabled /\ sinceConfigChange >= UI_INTERACTION_SUPPRESSION_MS
  /\ settings["enabled"] /\ settings["attributionMode"] = "any"

\* the changes an edit notification schedules a play for when it passes the gates
EditWanted == SelectSeq(EditActions, LAMBDA x : x # "none")

\* the outcome of the Live Share lookup an edit notification met (SpecGate)
EditLookup == last.info[4][1]

\* C17: in attribution mode any, shouldPlaySound answers the master enabled
\* flag, whatever the lookup would find; so an edit of a document of an open
\* comparison tab, outside the suppression window, schedules its plays when
\* the flag is on and nothing when it is off.
C17_ModeAnyFollowsEnabled ==
  settings["attributionMode"] = "any" =>
    /\ \A live \in BOOLEAN :
         shouldPlaySound(getVSCodeConfig, live) = settings["enabled"]
    /\ (last.ev = "edit" /\ EditInDiff /\ ~isDisabled
          /\ sinceConfigChange >= UI_INTERACTION_SUPPRESSION_MS) =>
         EditScheduled = IF settings["enabled"] THEN EditWanted ELSE <<>>

\* an insertion in mode any with the master flag on is scheduled
C17_Witness ==
  /\ last.ev = "edit" /\ EditInDiff
  /\ settings["attributionMode"] = "any" /\ settings["enabled"]
  /\ EditScheduled = <<"add">>

\* C18: in mode git-only shouldPlaySound answers false whatever the settings
\* and the document; in mode live-only it answers false when the lookup finds
\* no API or no session or throws; the edit handler then completes and
\* schedules nothing.
C18_AttributionFailuresAreFalse ==
  /\ settings["attributionMode"] = "git-only" =>
       /\ \A live \in BOOLEAN : ~shouldPlaySound(getVSCodeConfig, live)
       /\ last.ev = "edit" => EditScheduled = <<>>
  /\ (settings["attributionMode"] = "live-only" /\ last.ev = "edit"
        /\ EditLookup \in {"noApi", "noSession", "throws"}) =>
       /\ ~shouldPlaySound(getVSCodeConfig, checkLiveAttribution(EditLookup))
       /\ EditScheduled = <<>>

\* an edit in an open comparison tab whose Live Share lookup throws, with the
\* master flag on
C18_Witness ==
  /\ last.ev = "edit" /\ EditInDiff /\ settings["enabled"]
  /\ settings["attributionMode"] = "live-only"
  /\ EditLookup = "throws" /\ EditScheduled = <<>>
  /\ sinceConfigChange >= UI_INTERACTION_SUPPRESSION_MS

\* the configuration file an activation found and what loadConfig made of it
ActivatedFile == last.info[1]
ActivatedConfig == last.info[2]

\* C19: activation with a file that has the key addSoundPath or
\* removeSoundPath loads a structured configuration whose five roles are
\* enabled and carry no filename, and whose enabled, attributionMode,
\* authorName, volume and debounceMs are those of the file; the filenames of
\* the current configuration are then those of the detected files only.
C19_LegacyMigration ==
  (last.ev = "activate" /\ LegacyPathKeys \cap DOMAIN ActivatedFile # {}) =>
    /\ DOMAIN ActivatedConfig \cap LegacyPathKeys = {}
    /\ \A r \in Roles : /\ ActivatedConfig.sounds[r].enabled
                        /\ ~ActivatedConfig.sounds[r].filename
                        /\ currentConfig.sounds[r].enabled
                        /\ currentConfig.sounds[r].filename <=> r \in soundFiles
    /\ \A k \in {"enabled", "attributionMode", "authorName", "volume", "debounceMs"} :
         ActivatedConfig[k] = ActivatedFile[k] /\ currentConfig[k] = ActivatedFile[k]

\* the legacy file of volume 80 and debounce interval 5 with both paths
C19_Witness ==
  /\ last.ev = "activate"
  /\ DOMAIN ActivatedFile \cap LegacyPathKeys = LegacyPathKeys
  /\ ActivatedFile.enabled
  /\ currentConfig.volume = 80 /\ currentConfig.debounceMs = 5
  /\ currentConfig.sounds["add"].enabled /\ currentConfig.sounds["remove"].enabled

\* what a reload found: the listing of the user folder, the scan result and
\* the match of every role
ScanUser == last.info[1]
ScanDetected == last.info[3]
ScanMatch == last.info[4]

\* C20 as stated: for every role of which the user folder lists a recognized
\* audio file, the scan result has no entry of the Defaults folder for that
\* role and the role is matched to a file of the user folder.
C20_UserFilesTakePrecedence ==
  (last.ev = "reload" /\ Len(last.info) = 5) =>
    \A r \in Roles :
      (\E j \in 1..Len(ScanUser) :
          /\ ScanUser[j].kind = "file" /\ ScanUser[j].format \in AudioFormats
          /\ guessSoundType(ScanUser[j].base) = r) =>
        /\ \A i \in 1..Len(ScanDetected) :
             ScanDetected[i].type = r => ScanDetected[i].origin # "default"
        /\ ScanMatch[r].origin = "user"

\* C20, amended: for every role of which the user folder lists a recognized
\* audio file, the scan result has no entry of the Defaults folder for that
\* role; and when the scan detects a user file of the role, that is when no
\* entry listed before it makes the scan fail, the role resolves to a
\* recognized audio file of the user folder, outside the Defaults subfolder.
C20_DetectedUserFilesTakePrecedence ==
  (last.ev = "reload" /\ Len(last.info) = 5) =>
    \A r \in Roles :
      /\ (\E j \in 1..Len(ScanUser) :
            /\ ScanUser[j].kind = "file" /\ ScanUser[j].format \in AudioFormats
            /\ guessSoundType(ScanUser[j].base) = r) =>
           \A i \in 1..Len(ScanDetected) :
             ScanDetected[i].type = r => ScanDetected[i].origin # "default"
      /\ (\E i \in 1..Len(ScanDetected) :
            ScanDetected[i].type = r /\ ScanDetected[i].origin = "user") =>
           /\ ScanMatch[r].origin = "user"
           /\ ResolvedFile(ScanMatch[r]).subfolder = ""
           /\ \E j \in 1..Len(ScanUser) :
                /\ ScanUser[j].kind = "file" /\ ScanUser[j].format \in AudioFormats
                /\ guessSoundType(ScanUser[j].base) = r
                /\ ScanUser[j].base = ScanMatch[r].base
                /\ ScanUser[j].format = ScanMatch[r].format
           /\ currentConfig.sounds[r].filename

\* a reload with a user file for the add sound and the five shipped defaults:
\* add resolves to the user file, remove to the default
C20_Witness ==
  /\ last.ev = "reload" /\ Len(last.info) = 5
  /\ ScanUser = <<DirEntry("insert", "mp3", "file")>>
  /\ Len(last.info[2]) = 5
  /\ ScanMatch["add"] = [base |-> "insert", format |-> "mp3", type |-> "add", origin |-> "user"]
  /\ ScanMatch["remove"].origin = "default"

ScanBefore == last.info[5]

RestoreUser == last.info[1]
RestoreFrom == last.info[2]
RestoreFolder == last.info[3]
RestoreStatus == last.info[4]
RestoreReloaded == last.info[5]

\* C23: when the Defaults folder exists and every entry of it other than
\* README.txt can be copied, the user folder afterwards holds every such
\* entry with the content of the default, also under a name the user folder
\* had, README.txt is not copied, the other user files are as they were, and
\* the sounds are reloaded; when the folder is missing or a copy fails, the
\* view is sent the failure status and the sounds are not reloaded.
C23_RestoreDefaults ==
  last.ev = "restore" =>
    LET copies == {i \in 1..Len(RestoreFrom.files) :
                     FileName(RestoreFrom.files[i]) # FileName(README)}
        names == {FileName(RestoreFrom.files[i]) : i \in copies}
        before == {FileName(RestoreUser[i]) : i \in 1..Len(RestoreUser)}
    IN IF RestoreFrom.exists /\ \A i \in copies : RestoreFrom.files[i].kind = "file"
         THEN /\ RestoreStatus = "Defaults restored!" /\ RestoreReloaded
              /\ DOMAIN RestoreFolder = before \cup names
              /\ \A n \in names : RestoreFolder[n] = "default"
              /\ \A n \in before \ names : RestoreFolder[n] = "user"
         ELSE /\ RestoreStatus = "Failed to restore defaults" /\ ~RestoreReloaded

\* the shipped defaults restored over a user folder that has its own add.wav
C23_Witness ==
  /\ last.ev = "restore"
  /\ RestoreUser = <<DirEntry("add", "wav", "file")>>
  /\ RestoreFrom = Folder(TRUE, ShippedDefaults)
  /\ RestoreFolder[<<"add", "wav">>] = "default"
  /\ RestoreReloaded

\* the sound an audioEnded message named and the callbacks registered for it
\* when the message arrived, in the order of their registration
EndedSound == last.info[1]
EndedCallbacks == last.info[2]

C25_CountedWhileSuppressing ==
  (last.ev = "tabs" /\ isDuringConfigChange /\ ~isDisabled /\ settings["enabled"]) =>
    /\ openDiffTabCount = CountBefore + TabsOpened - TabsClosed
    /\ last.cmds = <<>>

\* C26: at most one looped source of the active sound is sounding at any time.
C26_SingleActiveLoop == playingSources["diffactive"].loop <= 1

\* C27: once a tab event has taken the count from 0 to 1 or more, attended,
\* with the active sound enabled and loaded, and the tabs stay open with no
\* command and no change of the settings, a looped source of the active
\* sound is started eventually, whatever the open cue.
C27_LoopEventuallyStarts ==
  [](( /\ last.ev = "tabs" /\ CountBefore = 0 /\ openDiffTabCount >= 1
       /\ TabsAttended
       /\ settings["diffActiveSound.enabled"]
       /\ soundPath["diffactive"] /\ "diffactive" \in audioBuffers )
     => <>(playingSources["diffactive"].loop > 0))

\* C28: after a configuration-change notification the path of every role is
\* the one the settings as they are now give it: empty for a role that is
\* switched off, resolved for a role that is switched on and has a file.
C28_PathsFollowSettings ==
  last.ev = "config" =>
    \A r \in Roles : soundPath[r] <=> (getVSCodeConfig.sounds[r].enabled /\ r \in soundFiles)

\* C29: after a reload of the sounds, a role the scan finds no file for has
\* an empty path, also when a load before had resolved one.
C29_UnmatchedRoleHasNoPath ==
  last.ev = "reload" => \A r \in Roles \ soundFiles : ~soundPath[r]

\* C30: a debounce timer that fires while isDuringConfigChange is set posts
\* no play, although its edit was scheduled before the change.
C30_DroppedAtFireTime ==
  (last.ev = "debounce" /\ isDuringConfigChange) => last.cmds = <<>>

\* the timer of an insertion fires during a configuration change, with the
\* add sound enabled and loaded and the extension not disabled
C30_Witness ==
  /\ last.ev = "debounce" /\ last.info[1] = "add" /\ isDuringConfigChange
  /\ last.cmds = <<>>
  /\ ~isDisabled /\ settings["enabled"] /\ settings["addSound.enabled"]
  /\ soundPath["add"] /\ "add" \in audioBuffers /\ audioWebviewPanel

\* C31: a configuration-change notification sets isDuringConfigChange, takes
\* the change time and schedules the 2000 ms timer; once time has passed
\* since the last change the flag is cleared unless a further change
\* arrives; a tab event handled with the flag cleared plays again: the open
\* cue once per opened tab when it is enabled and playable, the loop at once
\* when the open cue is off and the active sound is enabled and playable.
C31_CooldownEnds ==
  /\ [](last.ev = "config" =>
          /\ isDuringConfigChange /\ sinceConfigChange = 0
          /\ UI_INTERACTION_SUPPRESSION_MS \in cooldownTimers)
  /\ [](isDuringConfigChange => \E c \in cooldownTimers :
            c <= UI_INTERACTION_SUPPRESSION_MS - sinceConfigChange)
  /\ (isDuringConfigChange /\ sinceConfigChange > 0)
        ~> (~isDuringConfigChange \/ sinceConfigChange = 0)
  /\ []((last.ev = "tabs" /\ TabsAttended /\ audioWebviewPanel) =>
          /\ (settings["diffOpenSound.enabled"] /\ soundPath["diffopen"]) =>
                PlaysOf(last.cmds, "diffopen") = TabsOpened
          /\ (/\ ~settings["diffOpenSound.enabled"]
              /\ settings["diffActiveSound.enabled"] /\ soundPath["diffactive"]) =>
                PlaysOf(last.cmds, "diffactive") = TabsOpened)

\* the open cue has been switched off, the cooldown of that change has ended
\* and a comparison tab that opens starts the loop
C31_Witness ==
  /\ last.ev = "tabs" /\ TabsOpened = 1 /\ last.cmds = <<LoopPlay>>
  /\ ~settings["diffOpenSound.enabled"]
  /\ ~isDuringConfigChange /\ cooldownTimers = {}
  /\ sinceConfigChange = UI_INTERACTION_SUPPRESSION_MS

\* C32: isDuringConfigChange is set at every moment less than 2000 ms after
\* the most recent configuration-change notification, also when the changes
\* overlap, and a tab event handled within that time posts no command.
C32_FlagHeldForLatestChange ==
  /\ sinceConfigChange < UI_INTERACTION_SUPPRESSION_MS => isDuringConfigChange
  /\ (last.ev = "tabs" /\ sinceConfigChange < UI_INTERACTION_SUPPRESSION_MS) =>
       last.cmds = <<>>

\* C33: a tab event that opens one comparison tab and closes none, handled
\* with the count at 0, the open cue disabled and the active sound enabled
\* and playable, posts the looped active play and nothing else, takes the
\* count to 1 and registers no completion callback.
C33_LoopAtOnce ==
  [][(/\ last'.ev = "tabs" /\ TabsOpened' = 1 /\ TabsClosed' = 0
      /\ openDiffTabCount = 0
      /\ ~isDisabled /\ settings["enabled"] /\ ~isDuringConfigChange
      /\ ~settings["diffOpenSound.enabled"] /\ settings["diffActiveSound.enabled"]
      /\ soundPath["diffactive"] /\ audioWebviewPanel) =>
        /\ last'.cmds = <<LoopPlay>>
        /\ openDiffTabCount' = 1
        /\ soundCompletionCallbacks' = soundCompletionCallbacks]_vars

\* the loop starts at once while a callback of an earlier open cue, from
\* before the open cue was switched off, is still registered
C33_Witness ==
  /\ last.ev = "tabs" /\ TabsOpened = 1 /\ TabsClosed = 0 /\ CountBefore = 0
  /\ last.cmds = <<LoopPlay>> /\ openDiffTabCount = 1
  /\ ~settings["diffOpenSound.enabled"] /\ settings["diffActiveSound.enabled"]
  /\ Len(soundCompletionCallbacks["diffopen"]) = 1
  /\ playingSources["diffactive"].loop = 1

C35_UnplayableIsNoOp ==
  [][(/\ last'.ev = "play"
      /\ ~last'.info[2] \/ ~soundPath[last'.info[1]]) =>
        /\ last'.cmds = <<>>
        /\ UNCHANGED <<settings, pendingUpdates, currentConfig, isDisabled,
                       isDuringConfigChange, sinceConfigChange, cooldownTimers,
                       openDiffTabCount, timeout, pendingTimeouts, openTabs, soundPath,
                       audioWebviewPanel, soundCompletionCallbacks, audioBuffers,
                       playingSources, inbox, soundFiles, hist>>]_vars

\* the close cue is requested with its flag off while its file is resolved
\* and the active loop sounds: the loop goes on
C35_Witness ==
  /\ last.ev = "play" /\ last.info = <<"diffclose", FALSE>>
  /\ soundPath["diffclose"] /\ audioWebviewPanel
  /\ last.cmds = <<>>
  /\ playingSources["diffactive"].loop = 1

\* C36: a play method called with a configuration in which the role has no
\* volume passes the square of the master volume m, in ten-thousandths: the
\* role volume it uses is the master volume.
C36_MasterVolumeWhenUnset ==
  (last.ev = "playAt" /\ last.info[2] = NoVolume /\ last.cmds # <<>>) =>
     last.info[4] = last.info[3] * last.info[3]

\* the rules of the five roles, in their order, on a lower-cased base name
RuleOrder == <<"diffopen", "diffactive", "diffclose", "add", "remove">>

RuleMatches(role, name) ==
  CASE role = "diffopen" ->
         \E k \in {"diffopen", "diff-open", "diff_open"} : includes(name, k)
    [] role = "diffactive" ->
         \E k \in {"diffactive", "diff-active", "diff_active"} : includes(name, k)
    [] role = "diffclose" ->
         \E k \in {"diffclose", "diff-close", "diff_close"} : includes(name, k)
    [] role = "add" ->
         name = "plus" \/ \E k \in {"add", "insert", "create"} : includes(name, k)
    [] role = "remove" ->
         name = "minus" \/ \E k \in {"remove", "delete", "cut"} : includes(name, k)

\* the role of the first rule that matches, "none" when no rule does
RoleByRule(name) ==
  IF \A i \in 1..Len(RuleOrder) : ~RuleMatches(RuleOrder[i], name) THEN "none"
  ELSE RuleOrder[CHOOSE i \in 1..Len(RuleOrder) :
                   /\ RuleMatches(RuleOrder[i], name)
                   /\ \A j \in 1..(i - 1) : ~RuleMatches(RuleOrder[j], name)]

\* C37: every file of a scan result has the role of the first rule, in the
\* order diffopen, diffactive, diffclose, add, remove, that its lower-cased
\* base name matches; an audio file of the user folder that the scan reads
\* is in the result if and only if some rule matches its name.
C37_FirstRuleDecides ==
  (last.ev = "reload" /\ Len(last.info) = 5) =>
    /\ \A j \in 1..Len(ScanDetected) :
         /\ ScanDetected[j].type = RoleByRule(toLowerCase(ScanDetected[j].base))
         /\ ScanDetected[j].type # "none"
    /\ \A i \in 1..Len(ScanUser) :
         (/\ \A h \in 1..i : ScanUser[h].kind # "unreadable"
          /\ ScanUser[i].kind = "file" /\ ScanUser[i].format \in AudioFormats) =>
           (RoleByRule(toLowerCase(ScanUser[i].base)) # "none" <=>
              \E j \in 1..Len(ScanDetected) :
                 /\ ScanDetected[j].base = ScanUser[i].base
                 /\ ScanDetected[j].format = ScanUser[i].format
                 /\ ScanDetected[j].origin = "user")

\* a name with a remove keyword and an add keyword is an add sound; a name
\* that only ends in plus is left out
C37_Witness ==
  /\ last.ev = "reload" /\ Len(last.info) = 5
  /\ ScanUser = <<DirEntry("Delete_Added", "wav", "file"), DirEntry("surplus", "wav", "file")>>
  /\ Len(ScanDetected) = 1
  /\ ScanDetected[1].base = "Delete_Added" /\ ScanDetected[1].type = "add"

\* C38: an audioEnded message of the open cue that is handled while
\* openDiffTabCount is 0 or while the extension is disabled runs the
\* callbacks registered when the tabs opened without posting a command: the
\* active loop is not started.
C38_CallbackChecksAtCompletion ==
  (/\ last.ev = "audioEnded" /\ EndedSound = "diffopen" /\ EndedCallbacks # <<>>
   /\ openDiffTabCount = 0 \/ isDisabled) =>
     /\ last.cmds = <<>>
     /\ soundCompletionCallbacks["diffopen"] = <<>>

\* the only comparison tab has closed before its open cue ended; the active
\* sound is enabled and loaded and nothing is disabled
C38_Witness ==
  /\ last.ev = "audioEnded" /\ EndedSound = "diffopen" /\ Len(EndedCallbacks) = 1
  /\ EndedCallbacks[1].enabled /\ EndedCallbacks[1].sounds["diffactive"].enabled
  /\ openDiffTabCount = 0 /\ openTabs = {} /\ ~isDisabled
  /\ soundPath["diffactive"] /\ audioWebviewPanel /\ "diffactive" \in audioBuffers
  /\ last.cmds = <<>> /\ playingSources["diffactive"].loop = 0

\* C39: a test of a role posts at most one play, not looped, of that role
\* and nothing else; when the one sounding source of the open cue is the one
\* a test has just started and it ends, the audioEnded message it posts
\* starts no loop of the active sound.
C39_TestTouchesOnlyItsChannel ==
  [][/\ last'.ev = "test" =>
          last'.cmds \in {<<>>, <<PlayCmd(last'.info[1], FALSE)>>}
     /\ (/\ last.ev = "soundEnds" /\ last.info = <<"diffopen", 1, TRUE>>
         /\ inbox = <<"diffopen">>
         /\ last'.ev = "audioEnded") =>
           \A i \in 1..Len(last'.cmds) : last'.cmds[i] # LoopPlay]_vars

\* C40: a tab event that closes the one counted comparison tab and opens
\* another, attended, with the three cues enabled and the close and open
\* cues playable, posts the stop of the active sound, the play of the close
\* cue and the play of the open cue, in this order and nothing else, and
\* leaves openDiffTabCount at 1.
C40_ClosedBeforeOpened ==
  (/\ last.ev = "tabs" /\ TabsAttended
   /\ TabsClosed = 1 /\ TabsOpened = 1 /\ CountBefore = 1
   /\ \A k \in CueKeys : settings[k]
   /\ soundPath["diffclose"] /\ soundPath["diffopen"] /\ audioWebviewPanel) =>
     /\ last.cmds = <<StopCmd("diffactive"), PlayCmd("diffclose", FALSE),
                      PlayCmd("diffopen", FALSE)>>
     /\ openDiffTabCount = 1

\* the one open comparison tab is replaced by the other while the loop sounds
C40_Witness ==
  /\ last.ev = "tabs" /\ TabsClosed = 1 /\ TabsOpened = 1 /\ CountBefore = 1
  /\ LoopsBefore = 1 /\ Cardinality(openTabs) = 1
  /\ last.cmds = <<StopCmd("diffactive"), PlayCmd("diffclose", FALSE),
                   PlayCmd("diffopen", FALSE)>>
  /\ openDiffTabCount = 1 /\ playingSources["diffactive"].loop = 0
  /\ Len(soundCompletionCallbacks["diffopen"]) = 1
====
